---------------------------- MODULE Spec2Model ----------------------------
(***************************************************************************)
(* A model of the spatial-statistics engine of STARGEN (src/scr/func.py):  *)
(* pairwise distance aggregation (calc_avg_dist, calc_neighbor_dist),      *)
(* barrier / isolation classification (get_isolated_hex_and_barriers),     *)
(* nearest-population linkage (find_closest_population), scaling of the    *)
(* distances (scale_distances) and imputation (impute_missing_hexagons).   *)
(*                                                                         *)
(* Every function of the source is one group of variables and one          *)
(* specification; the variables of the other functions stay idle.          *)
(*                                                                         *)
(* Numbers.  The source works with floats.  The model works with exact     *)
(* integers in the unit the code rounds to: a value rounded with           *)
(* round(x, 2) is an integer number of hundredths, one rounded with        *)
(* round(x, 5) an integer number of 1e-5.  A mean is the exact quotient    *)
(* rounded half-to-even, as round() does.                                  *)
(*                                                                         *)
(* Grid.  An H3 cell is a pair <<q, r>> of axial coordinates of the        *)
(* hexagonal grid; the grid is unbounded, the inputs are drawn from small  *)
(* sets of cells.                                                          *)
(***************************************************************************)
EXTENDS Integers, Sequences, FiniteSets, TLC

-----------------------------------------------------------------------------
(* Generic helpers *)

RECURSIVE SumSet(_, _)
\* the sum of f[x] over the elements x of the finite set S
SumSet(f, S) ==
    IF S = {} THEN 0
    ELSE LET x == CHOOSE y \in S : TRUE IN f[x] + SumSet(f, S \ {x})

RECURSIVE SumSeq(_)
\* Python's sum() of a list of numbers
SumSeq(s) == IF s = <<>> THEN 0 ELSE Head(s) + SumSeq(Tail(s))

\* round(n / d) for d > 0, ties to the even neighbour: Python's round()
RoundDiv(n, d) ==
    LET q == n \div d
        r == n % d
    IN  IF 2 * r < d THEN q
        ELSE IF 2 * r > d THEN q + 1
        ELSE IF q % 2 = 0 THEN q ELSE q + 1

\* a dict replaced by b instead of updated with it
Update_Replace(a, b) == b

\* dict.update: the entries of b added to (and replacing those of) a
Update(a, b) ==
    [k \in (DOMAIN a) \cup (DOMAIN b) |-> IF k \in DOMAIN b THEN b[k] ELSE a[k]]

\* a dict comprehension keeping the keys of K
Restrict(f, K) == [k \in K |-> f[k]]

\* the empty dict
EmptyMap == [k \in {} |-> 0]

-----------------------------------------------------------------------------
(* The hexagonal grid (the h3 library, as far as the source uses it) *)

\* the six directions of the grid, in the order h3.grid_ring lists a ring
RingDirs == << <<1, 0>>, <<0, 1>>, <<-1, 1>>, <<-1, 0>>, <<0, -1>>, <<1, -1>> >>

Shift(c, d) == <<c[1] + d[1], c[2] + d[2]>>

\* h3.grid_ring(c, 1): the list of the six cells at grid distance 1
GridRing(c) == [i \in 1..6 |-> Shift(c, RingDirs[i])]

\* the set of the cells of h3.grid_ring(c, 1)
RingSet(c) == {GridRing(c)[i] : i \in 1..6}

\* h3.grid_disk(c, 1): the cell and its ring
GridDisk(c) == {c} \cup RingSet(c)

Abs(x) == IF x < 0 THEN -x ELSE x

Max3(a, b, c) ==
    IF a >= b /\ a >= c THEN a ELSE IF b >= c THEN b ELSE c

\* h3.grid_distance: the number of grid steps between two cells
GridDistance(a, b) ==
    LET dq == a[1] - b[1]
        dr == a[2] - b[2]
    IN  Max3(Abs(dq), Abs(dr), Abs(dq + dr))

Origin == <<0, 0>>

\* the patch of radius 1 around the origin: the cells the inputs are drawn from
Patch1 == GridDisk(Origin)

\* the first cell of the ring of a, in ring order, that is one step nearer to b
StepToward(a, b) ==
    LET i == CHOOSE j \in 1..6 :
                /\ GridDistance(GridRing(a)[j], b) = GridDistance(a, b) - 1
                /\ \A k \in 1..(j - 1) :
                        GridDistance(GridRing(a)[k], b) # GridDistance(a, b) - 1
    IN  GridRing(a)[i]

RECURSIVE GridPathCells(_, _)
\* h3.grid_path_cells(a, b) when it succeeds: a list of GridDistance(a, b) + 1
\* cells from a to b, each a grid neighbor of the one before
GridPathCells(a, b) ==
    IF a = b THEN <<a>>
    ELSE CHOOSE line \in {<<a>> \o GridPathCells(next, b) : next \in {StepToward(a, b)}} :
            TRUE

\* h3.latlng_to_cell of the midpoint of the centers of a and b: the cell whose
\* center is nearest to the midpoint (cube rounding of the mean coordinates)
MidpointHex(a, b) ==
    LET x2 == a[1] + b[1]
        z2 == a[2] + b[2]
        y2 == 0 - x2 - z2
        rx == RoundDiv(x2, 2)
        ry == RoundDiv(y2, 2)
        rz == RoundDiv(z2, 2)
        dx == Abs(2 * rx - x2)
        dy == Abs(2 * ry - y2)
        dz == Abs(2 * rz - z2)
    IN  IF dx > dy /\ dx > dz THEN <<0 - ry - rz, rz>>
        ELSE IF dy > dz THEN <<rx, rz>>
        ELSE <<rx, 0 - rx - ry>>

\* a corner of cell c: the point where c and two neighboring cells of it meet,
\* named by the three cells
Corner(c, i) == {c, GridRing(c)[i], GridRing(c)[(i % 6) + 1]}

\* h3.cell_to_boundary(c): the six corners of the cell
CellToBoundary(c) == {Corner(c, i) : i \in 1..6}

-----------------------------------------------------------------------------
(* State *)

VARIABLES
    \* impute_missing_hexagons (func.py:375-423)
    im_barrier_hex,     \* the argument barrier_hex: cell -> value (hundredths)
    im_num_runs,        \* the argument num_runs
    im_imputed_hex,     \* the local imputed_hex, the cumulative resolved map
    im_run,             \* the number of rounds of the for loop done so far
    im_result,          \* the returned map
    im_pc               \* "idle", "loop" or "done"

imVars == <<im_barrier_hex, im_num_runs, im_imputed_hex, im_run, im_result, im_pc>>

VARIABLES
    \* get_isolated_hex_and_barriers (func.py:204-291)
    iso_time_bin,           \* the argument time_bin: pair of cells -> distance
    iso_hexagons,           \* the argument hexagons, as the set of its cells
    iso_threshold,          \* the argument threshold
    iso_allowed_distance,   \* the argument allowed_distance
    iso_fail,               \* the pairs of cells h3.grid_path_cells raises for
    iso_todo,               \* the pairs the loop of line 256 has not reached yet
    iso_barrier_lines,      \* barrier_lines: shared boundary -> distance
    iso_barrier_hex,        \* barrier_hex: cell -> list of distances, and from
                            \* line 281 on cell -> their rounded mean
    iso_hex_dist,           \* hex_dist_to_direct_neighbors: cell -> list
    iso_new_time_bin,       \* new_time_bin: pair of cells -> distance
    iso_isolated_hex,       \* isolated_hex, as the set of its cells
    iso_runs,               \* the isolated set each call so far returned, by
                            \* the threshold of the call
    iso_pc                  \* "idle", "loop" or "done"

isoVars == <<iso_time_bin, iso_hexagons, iso_threshold, iso_allowed_distance, iso_fail, iso_todo,
             iso_barrier_lines, iso_barrier_hex, iso_hex_dist, iso_new_time_bin,
             iso_isolated_hex, iso_runs, iso_pc>>

VARIABLES
    \* scale_distances (func.py:426-486)
    sc_time_bin,        \* the argument time_bin: pair of cells -> genetic distance
    sc_exsiting_pred,   \* the argument exsiting_pred: a prediction or NoPred
    sc_resolution,      \* the argument resolution
    sc_pred,            \* gen_distances_pred: rows <<km, predicted distance>>
    sc_fits,            \* how often this call has run the LOESS fit
    sc_todo,            \* the pairs the loop of line 472 has not reached yet
    sc_output,          \* output: pair of cells -> scaled distance (hundredths)
    sc_raised,          \* the pairs whose pass of the loop raised
    sc_pc               \* "idle", "start", "loop", "done" or "raised"

scVars == <<sc_time_bin, sc_exsiting_pred, sc_resolution, sc_pred, sc_fits, sc_todo,
            sc_output, sc_raised, sc_pc>>

VARIABLES
    \* find_closest_population (func.py:294-372)
    fc_samples_in_hex,      \* samples_in_hex: cell -> list of sample IDs
    fc_dist_matrix,         \* the argument dist_matrix (hundredths)
    fc_hexagons,            \* hexagons: the cells of the bin, in table order
    fc_isolated_hex,        \* the argument isolated_hex, a list of cells
    fc_threshold,           \* the argument threshold (hundredths)
    fc_pred,                \* the argument gen_distances_pred
    fc_i,                   \* the position of the loop of line 341 in isolated_hex
    fc_j,                   \* the position of the loop of line 349 in hexagons
    fc_min_dist,            \* min_dist, a quotient <<sum, count>>
    fc_closest_hex,         \* closest_hex, NoHex for None
    fc_distance,            \* distance, Unbound before its first assignment
    fc_compared,            \* the value all_dist held for each isolated cell
    fc_closest_populations, \* closest_populations: <<iso, closest>> -> distance
    fc_new_isolated_hex,    \* new_isolated_hex, a list of cells
    fc_pc                   \* "idle", "loop", "done" or "raised"

fcVars == <<fc_samples_in_hex, fc_dist_matrix, fc_hexagons, fc_isolated_hex,
            fc_threshold, fc_pred, fc_i, fc_j, fc_min_dist, fc_closest_hex,
            fc_distance, fc_compared, fc_closest_populations, fc_new_isolated_hex,
            fc_pc>>

VARIABLES
    \* calc_neighbor_dist (func.py:48-129)
    nd_samples_in_hex,  \* samples_in_hex: cell -> list of sample IDs
    nd_dist_matrix,     \* the argument dist_matrix (units of 1e-5)
    nd_hexagons,        \* the argument hexagons, a list of cells
    nd_keys,            \* the keys of neighbors in the order of their insertion
    nd_neighbors,       \* neighbors: cell -> list of cells
    nd_k,               \* the position of the loop of line 115 in nd_keys
    nd_n,               \* the position of the loop of line 118 in neighbor_list
    nd_averages,        \* averages: unordered pair of cells -> distance
    nd_written,         \* for each pair, the values line 127 stored, in order
    nd_simplices,       \* tri.simplices of line 89, as sets of cells
    nd_pc               \* "idle", "start", "loop", "done" or "raised"

ndVars == <<nd_samples_in_hex, nd_dist_matrix, nd_hexagons, nd_keys, nd_neighbors,
            nd_k, nd_n, nd_averages, nd_written, nd_simplices, nd_pc>>

VARIABLES
    \* calc_avg_dist as called at func.py:119-127, for any two cells
    ad_samples_in_hex,  \* samples_in_hex: cell -> list of sample IDs
    ad_dist_matrix,     \* dist_matrix (units of 1e-5)
    ad_hexagon,         \* hexagon
    ad_neighbor,        \* neighbor
    ad_distance,        \* distance, Unbound before the call
    ad_averages,        \* averages
    ad_pc               \* "idle", "call", "returned", "stored" or "raised"

adVars == <<ad_samples_in_hex, ad_dist_matrix, ad_hexagon, ad_neighbor, ad_distance,
            ad_averages, ad_pc>>

VARIABLES
    \* the session of app.py (app.py:85-189)
    app_setup_done,             \* 'setup_done' in st.session_state
    app_isolated_threshold,     \* st.session_state['isolated_threshold'] (hundredths)
    app_selected_time_bin_id,   \* st.session_state['selected_time_bin_id']
    app_derived,                \* what isolated_hex, barrier_lines, barrier_hex and
                                \* imputed_hex of the session were computed for
    app_closest,                \* what closest_populations was computed for
    app_slider,                 \* the value the threshold slider shows
    app_selectbox,              \* the index of the time bin the selectbox shows
    app_pc                      \* "idle", "setup", "run", "shown", or "failed" after a
                                \* run that an exception of line 140 ended

appVars == <<app_setup_done, app_isolated_threshold, app_selected_time_bin_id,
             app_derived, app_closest, app_slider, app_selectbox, app_pc>>

VARIABLES
    \* create_age_groups (func.py:590-614)
    ag_ages,            \* the column 'Age' of df: the age of each sample, by row
    ag_number_of_bins,  \* the argument number_of_bins
    ag_temp_df,         \* temp_df: the rows of df sorted by age
    ag_sample_per_bin,  \* sample_per_bin
    ag_remainder,       \* remainder
    ag_start_index,     \* start_index
    ag_bin_num,         \* bin_num, the passes of the loop done
    ag_age_groups,      \* age_groups, a list of lists of rows
    ag_pc               \* "idle", "start", "loop" or "done"

agVars == <<ag_ages, ag_number_of_bins, ag_temp_df, ag_sample_per_bin, ag_remainder,
            ag_start_index, ag_bin_num, ag_age_groups, ag_pc>>

VARIABLES
    \* find_h3_line (func.py:222-247) as a call stack
    fl_hex_start,       \* the argument hex_start of the outermost call
    fl_hex_end,         \* the argument hex_end of the outermost call
    fl_fail,            \* the pairs of cells h3.grid_path_cells raises for
    fl_stack,           \* the active calls, the innermost last
    fl_returning,       \* whether a call has just returned to its caller
    fl_ret,             \* the value that call returned
    fl_result,          \* the value the outermost call returned
    fl_pc               \* "idle", "run" or "done"

flVars == <<fl_hex_start, fl_hex_end, fl_fail, fl_stack, fl_returning, fl_ret,
            fl_result, fl_pc>>

VARIABLES
    \* create_equal_age_groups (func.py:553-587, label_samples_time_hexa.py:10-44)
    eg_file,            \* which of the two copies runs: "func" or "label"
    eg_df,              \* the argument df: age -> number of samples of that age
    eg_number_of_bins,  \* the argument number_of_bins
    eg_bin_size,        \* bin_size
    eg_low_b,           \* low_b
    eg_up_b,            \* up_b
    eg_pass,            \* the number of passes of the for loop done so far
    eg_age_groups,      \* age_groups: the list of the tables of the bins
    eg_pc               \* "idle", "start", "loop", "done" or "raised"

egVars == <<eg_file, eg_df, eg_number_of_bins, eg_bin_size, eg_low_b, eg_up_b,
            eg_pass, eg_age_groups, eg_pc>>

vars == <<imVars, isoVars, scVars, fcVars, ndVars, adVars, appVars, agVars, flVars, egVars>>

\* the variables a function leaves alone: those of the other functions
notImVars == <<isoVars, scVars, fcVars, ndVars, adVars, appVars, agVars, flVars, egVars>>
notIsoVars == <<imVars, scVars, fcVars, ndVars, adVars, appVars, agVars, flVars, egVars>>
notScVars == <<imVars, isoVars, fcVars, ndVars, adVars, appVars, agVars, flVars, egVars>>
notFcVars == <<imVars, isoVars, scVars, ndVars, adVars, appVars, agVars, flVars, egVars>>
notNdVars == <<imVars, isoVars, scVars, fcVars, adVars, appVars, agVars, flVars, egVars>>
notAdVars == <<imVars, isoVars, scVars, fcVars, ndVars, appVars, agVars, flVars, egVars>>
notAppVars == <<imVars, isoVars, scVars, fcVars, ndVars, adVars, agVars, flVars, egVars>>
notAgVars == <<imVars, isoVars, scVars, fcVars, ndVars, adVars, appVars, flVars, egVars>>
notFlVars == <<imVars, isoVars, scVars, fcVars, ndVars, adVars, appVars, agVars, egVars>>
notEgVars == <<imVars, isoVars, scVars, fcVars, ndVars, adVars, appVars, agVars, flVars>>

\* the variables of a function that is not called
\* no prediction: the None of exsiting_pred
NoPred == <<>>

\* no cell: the None of closest_hex and of the parameter hex2
NoHex == <<>>

\* a local variable that was never assigned
Unbound == <<>>

\* a key that is not in st.session_state
Absent == <<>>

\* the same for a key that holds a number
NoNumber == 0 - 1

EgIdle ==
    /\ eg_file = ""
    /\ eg_df = EmptyMap
    /\ eg_number_of_bins = 0
    /\ eg_bin_size = 0
    /\ eg_low_b = 0
    /\ eg_up_b = 0
    /\ eg_pass = 0
    /\ eg_age_groups = <<>>
    /\ eg_pc = "idle"

FlIdle ==
    /\ fl_hex_start = <<>>
    /\ fl_hex_end = <<>>
    /\ fl_fail = {}
    /\ fl_stack = <<>>
    /\ fl_returning = FALSE
    /\ fl_ret = <<>>
    /\ fl_result = <<>>
    /\ fl_pc = "idle"

AgIdle ==
    /\ ag_ages = <<>>
    /\ ag_number_of_bins = 0
    /\ ag_temp_df = <<>>
    /\ ag_sample_per_bin = 0
    /\ ag_remainder = 0
    /\ ag_start_index = 0
    /\ ag_bin_num = 0
    /\ ag_age_groups = <<>>
    /\ ag_pc = "idle"

AppIdle ==
    /\ app_setup_done = FALSE
    /\ app_isolated_threshold = NoNumber
    /\ app_selected_time_bin_id = NoNumber
    /\ app_derived = Absent
    /\ app_closest = Absent
    /\ app_slider = NoNumber
    /\ app_selectbox = NoNumber
    /\ app_pc = "idle"

FcIdle ==
    /\ fc_samples_in_hex = EmptyMap
    /\ fc_dist_matrix = EmptyMap
    /\ fc_hexagons = <<>>
    /\ fc_isolated_hex = <<>>
    /\ fc_threshold = 0
    /\ fc_pred = NoPred
    /\ fc_i = 0
    /\ fc_j = 0
    /\ fc_min_dist = Unbound
    /\ fc_closest_hex = NoHex
    /\ fc_distance = Unbound
    /\ fc_compared = EmptyMap
    /\ fc_closest_populations = EmptyMap
    /\ fc_new_isolated_hex = <<>>
    /\ fc_pc = "idle"

AdIdle ==
    /\ ad_samples_in_hex = EmptyMap
    /\ ad_dist_matrix = EmptyMap
    /\ ad_hexagon = NoHex
    /\ ad_neighbor = NoHex
    /\ ad_distance = Unbound
    /\ ad_averages = EmptyMap
    /\ ad_pc = "idle"

NdIdle ==
    /\ nd_samples_in_hex = EmptyMap
    /\ nd_dist_matrix = EmptyMap
    /\ nd_hexagons = <<>>
    /\ nd_keys = <<>>
    /\ nd_neighbors = EmptyMap
    /\ nd_k = 0
    /\ nd_n = 0
    /\ nd_averages = EmptyMap
    /\ nd_written = EmptyMap
    /\ nd_simplices = {}
    /\ nd_pc = "idle"

ScIdle ==
    /\ sc_time_bin = EmptyMap
    /\ sc_exsiting_pred = NoPred
    /\ sc_resolution = 0
    /\ sc_pred = NoPred
    /\ sc_fits = 0
    /\ sc_todo = {}
    /\ sc_output = EmptyMap
    /\ sc_raised = {}
    /\ sc_pc = "idle"

ImIdle ==
    /\ im_barrier_hex = EmptyMap
    /\ im_num_runs = 0
    /\ im_imputed_hex = EmptyMap
    /\ im_run = 0
    /\ im_result = EmptyMap
    /\ im_pc = "idle"

IsoIdle ==
    /\ iso_time_bin = EmptyMap
    /\ iso_hexagons = {}
    /\ iso_threshold = 0
    /\ iso_allowed_distance = 0
    /\ iso_fail = {}
    /\ iso_todo = {}
    /\ iso_barrier_lines = EmptyMap
    /\ iso_barrier_hex = EmptyMap
    /\ iso_hex_dist = EmptyMap
    /\ iso_new_time_bin = EmptyMap
    /\ iso_isolated_hex = {}
    /\ iso_runs = EmptyMap
    /\ iso_pc = "idle"

-----------------------------------------------------------------------------
(* calc_avg_dist (func.py:33-45) *)

RECURSIVE SumOver(_, _, _, _)
\* the sum of dist_matrix[a, b] over the first i entries a of samples_hex1 and
\* all entries b of samples_hex2
SumOver(samples_hex1, samples_hex2, dist_matrix, i) ==
    IF i = 0 THEN 0
    ELSE SumSeq([j \in 1..Len(samples_hex2) |->
                    dist_matrix[<<samples_hex1[i], samples_hex2[j]>>]])
         + SumOver(samples_hex1, samples_hex2, dist_matrix, i - 1)

\* the mean of the row of the first sample of samples_hex1 alone
CalcAvgDist_FirstOfHex1(samples_hex1, samples_hex2, dist_matrix) ==
    <<SumOver(samples_hex1, samples_hex2, dist_matrix, 1), Len(samples_hex2)>>

\* func.py:45: dist_matrix.loc[samples_hex1, samples_hex2].values.flatten().mean(),
\* as the exact quotient <<sum, count>>
CalcAvgDist(samples_hex1, samples_hex2, dist_matrix) ==
    <<SumOver(samples_hex1, samples_hex2, dist_matrix, Len(samples_hex1)),
      Len(samples_hex1) * Len(samples_hex2)>>

\* float('inf') as a quotient
InfDist == <<1, 0>>

\* x < y for two quotients with counts >= 0
Less(x, y) == x[1] * y[2] < y[1] * x[2]

\* round(x, ndigits) of a quotient, in the unit of the last digit kept
Round(x) == RoundDiv(x[1], x[2])

\* the symmetric matrices over the samples S with entries of V off the diagonal
\* and 0 on it
DistMatrices(S, V) ==
    {[ab \in S \X S |-> IF ab[1] = ab[2] THEN 0 ELSE f[{ab[1], ab[2]}]] :
        f \in [{{a, b} : a, b \in S} \ {{a} : a \in S} -> V]}

RECURSIVE SetToSeq(_)
\* the numbers of S as a list in increasing order
SetToSeq(S) ==
    IF S = {} THEN <<>>
    ELSE LET lo == CHOOSE x \in S : \A y \in S : x <= y
         IN  <<lo>> \o SetToSeq(S \ {lo})

\* time_bin_df.groupby(hex_col)['ID'].apply(list).to_dict() (func.py:63, 328)
\* for the table that puts sample s into cell assign[s]
SamplesInHex(assign) ==
    [c \in {assign[x] : x \in DOMAIN assign} |->
        SetToSeq({x \in DOMAIN assign : assign[x] = c})]

\* the lists of n different elements of S
ListsOf(S, n) ==
    {l \in [1..n -> S] : \A i, j \in 1..n : i # j => l[i] # l[j]}

-----------------------------------------------------------------------------
(* get_isolated_hex_and_barriers (func.py:204-291) *)

\* the most pairs a time bin of the inputs holds
MaxPairs == 2

\* the default of allowed_distance (func.py:204)
DefaultAllowedDistance == 12

\* the default of max_iterations of find_h3_line (func.py:222)
MaxIterations == 10

\* the cells the time bins of the inputs are drawn from: three cells that are
\* grid neighbors of each other and one that is 2 to 3 steps away from them
IsoCells == {<<0, 0>>, <<0, 1>>, <<1, 0>>, <<3, 0>>}

\* the distances of the inputs (hundredths) and the thresholds of the calls
DistVals == {10, 40}
IsoThresholds == {10, 40}
AllowedDistances == {1, 3, DefaultAllowedDistance}

\* the pairs h3.grid_path_cells may raise for
FailCandidates == {{<<1, 0>>, <<3, 0>>}, {<<2, 0>>, <<3, 0>>}}

\* the unordered pairs of two distinct cells of S
PairsOf(S) == {{a, b} : a, b \in S} \ {{a} : a \in S}

\* the time bins of the inputs: at most MaxPairs pairs, each with a distance
TimeBins ==
    UNION {[P -> DistVals] :
            P \in {Q \in SUBSET PairsOf(IsoCells) : Cardinality(Q) \in 1..MaxPairs}}

\* whether two cells are direct grid neighbors
Adjacent(a, b) == GridDistance(a, b) = 1

\* func.py:259: pair[0] in h3.grid_ring(pair[1], 1)[1]; grid_ring returns the
\* list of the six neighbors, [1] is the second cell of that list, and `in`
\* between two cell names of equal length is equality
IsDirectNeighbor(pair0, pair1) == pair0 = GridRing(pair1)[2]

\* func.py:261-264: the points the boundaries of the two cells share
SharedBoundary(pair0, pair1) == CellToBoundary(pair0) \cap CellToBoundary(pair1)

\* no line: the None of find_h3_line
NoLine == <<>>

RECURSIVE FindH3Line(_, _, _, _)
\* func.py:222-247: find_h3_line; fail holds the pairs grid_path_cells raises for
FindH3Line(hex_start, hex_end, max_iterations, fail) ==
    IF {hex_start, hex_end} \notin fail
    THEN GridPathCells(hex_start, hex_end)
    ELSE IF max_iterations <= 0 THEN NoLine
    ELSE LET midpoint_hex == MidpointHex(hex_start, hex_end)
             first_half == FindH3Line(hex_start, midpoint_hex, max_iterations - 1, fail)
             second_half == FindH3Line(midpoint_hex, hex_end, max_iterations - 1, fail)
         IN  IF first_half # NoLine /\ second_half # NoLine
             THEN SubSeq(first_half, 1, Len(first_half) - 1) \o second_half
             ELSE NoLine

\* defaultdict(list)[k].append(v)
AppendTo(lists, k, v) ==
    IF k \in DOMAIN lists
    THEN [lists EXCEPT ![k] = Append(@, v)]
    ELSE Update(lists, [x \in {k} |-> <<v>>])

RECURSIVE AppendToAll(_, _, _)
\* func.py:275-276: the distance appended to the list of every cell of the line
AppendToAll(lists, line, v) ==
    IF line = <<>> THEN lists
    ELSE AppendToAll(AppendTo(lists, Head(line), v), Tail(line), v)

\* func.py:281: the mean of every list, rounded to 2 decimals
AverageLists(lists) ==
    [h \in DOMAIN lists |-> RoundDiv(SumSeq(lists[h]), Len(lists[h]))]

RECURSIVE AppendAllPairs(_, _, _)
\* func.py:284-286: the distance of every pair appended to the lists of its cells
AppendAllPairs(lists, time_bin, pairs) ==
    IF pairs = {} THEN lists
    ELSE LET pair == CHOOSE p \in pairs : TRUE
             a == CHOOSE x \in pair : TRUE
             b == CHOOSE x \in pair : x # a
             d == time_bin[pair]
         IN  AppendAllPairs(AppendTo(AppendTo(lists, a, d), b, d),
                            time_bin, pairs \ {pair})

\* IsolatedHex with the comparison of line 289 turned around
IsolatedHex_AtMost(lists, threshold) ==
    {h \in DOMAIN lists :
        \A i \in 1..Len(lists[h]) : lists[h][i] <= threshold}

\* IsolatedHex taking the cells of the argument hexagons as well, those
\* without a distance being isolated
IsolatedHex_Listed(lists, threshold) ==
    {h \in (DOMAIN lists) \cup iso_hexagons :
        h \in DOMAIN lists => \A i \in 1..Len(lists[h]) : lists[h][i] >= threshold}

\* func.py:289: the cells all of whose distances are >= threshold
IsolatedHex(lists, threshold) ==
    {h \in DOMAIN lists :
        \A i \in 1..Len(lists[h]) : lists[h][i] >= threshold}

\* func.py:250-253: a call with its arguments, the four dictionaries empty
IsoInit ==
    /\ iso_time_bin \in TimeBins
    /\ iso_hexagons \in {H \in SUBSET IsoCells : UNION (DOMAIN iso_time_bin) \subseteq H}
    /\ iso_threshold \in IsoThresholds
    /\ iso_allowed_distance \in AllowedDistances
    /\ iso_fail \in SUBSET FailCandidates
    /\ iso_todo = DOMAIN iso_time_bin
    /\ iso_barrier_lines = EmptyMap
    /\ iso_barrier_hex = EmptyMap
    /\ iso_hex_dist = EmptyMap
    /\ iso_new_time_bin = EmptyMap
    /\ iso_isolated_hex = {}
    /\ iso_runs = EmptyMap
    /\ iso_pc = "loop"

\* func.py:259-270: the pair is taken for a pair of direct neighbors
IsoDirect(pair, pair0, pair1) ==
    LET distance == iso_time_bin[pair] IN
    /\ iso_barrier_lines' =
            Update(iso_barrier_lines, [k \in {SharedBoundary(pair0, pair1)} |-> distance])
    /\ iso_hex_dist' = AppendTo(AppendTo(iso_hex_dist, pair0, distance), pair1, distance)
    /\ iso_new_time_bin' = Update(iso_new_time_bin, [k \in {pair} |-> distance])
    /\ UNCHANGED iso_barrier_hex

\* the test of line 273 on the length alone
Accepted_LengthOnly(line, allowed_distance) == Len(line) <= allowed_distance

\* func.py:273: line is not None and len(line) <= allowed_distance
Accepted(line, allowed_distance) ==
    line # NoLine /\ Len(line) <= allowed_distance

\* func.py:271-278: the pair is taken for a pair of cells that are further apart
IsoLine(pair, pair0, pair1) ==
    LET distance == iso_time_bin[pair]
        line == FindH3Line(pair0, pair1, MaxIterations, iso_fail)
    IN  IF Accepted(line, iso_allowed_distance)
        THEN /\ iso_barrier_hex' = AppendToAll(iso_barrier_hex, line, distance)
             /\ iso_new_time_bin' = Update(iso_new_time_bin, [k \in {pair} |-> distance])
             /\ UNCHANGED <<iso_barrier_lines, iso_hex_dist>>
        ELSE UNCHANGED <<iso_barrier_lines, iso_hex_dist, iso_barrier_hex,
                         iso_new_time_bin>>

\* func.py:256-278: one pass of the loop over the pairs of the time bin;
\* list(pair) lists the two cells of the frozenset in either order
IsoPair ==
    /\ iso_pc = "loop"
    /\ \E pair \in iso_todo :
        \E pair0 \in pair :
            LET pair1 == CHOOSE x \in pair : x # pair0 IN
            /\ IF IsDirectNeighbor(pair0, pair1)
               THEN IsoDirect(pair, pair0, pair1)
               ELSE IsoLine(pair, pair0, pair1)
            /\ iso_todo' = iso_todo \ {pair}
    /\ UNCHANGED <<iso_time_bin, iso_hexagons, iso_threshold,
                   iso_allowed_distance, iso_fail,
                   iso_isolated_hex, iso_runs, iso_pc>>
    /\ UNCHANGED notIsoVars

\* func.py:280-291: the means, the lists of all distances, the isolated cells
IsoReturn ==
    /\ iso_pc = "loop"
    /\ iso_todo = {}
    /\ iso_barrier_hex' = AverageLists(iso_barrier_hex)
    /\ iso_hex_dist' = AppendAllPairs(iso_hex_dist, iso_time_bin, DOMAIN iso_time_bin)
    /\ iso_isolated_hex' = IsolatedHex(iso_hex_dist', iso_threshold)
    /\ iso_runs' = Update(iso_runs, [t \in {iso_threshold} |-> iso_isolated_hex'])
    /\ iso_pc' = "done"
    /\ UNCHANGED <<iso_time_bin, iso_hexagons, iso_threshold,
                   iso_allowed_distance, iso_fail,
                   iso_todo, iso_barrier_lines, iso_new_time_bin>>
    /\ UNCHANGED notIsoVars

\* the caller calls again for the same time bin with another threshold
IsoCallAgain ==
    /\ iso_pc = "done"
    /\ \E t \in IsoThresholds \ DOMAIN iso_runs :
        iso_threshold' = t
    /\ iso_todo' = DOMAIN iso_time_bin
    /\ iso_barrier_lines' = EmptyMap
    /\ iso_barrier_hex' = EmptyMap
    /\ iso_hex_dist' = EmptyMap
    /\ iso_new_time_bin' = EmptyMap
    /\ iso_isolated_hex' = {}
    /\ iso_pc' = "loop"
    /\ UNCHANGED <<iso_time_bin, iso_hexagons, iso_allowed_distance, iso_fail, iso_runs>>
    /\ UNCHANGED notIsoVars

-----------------------------------------------------------------------------
(* impute_missing_hexagons (func.py:375-423) *)

\* the most rounds an input asks for
MaxRuns == 2

\* the values of the barrier maps the inputs are drawn from (hundredths)
ImVals == {1, 4}

\* a neighbor is kept once it has collected at least 3 values (func.py:410)
MinEntries == 3

\* func.py:403-406: the barrier hexagons whose value new_barrier_hex[n] collects:
\* those that have n in their grid_disk
Contributors(barrier_hex, n) ==
    {h \in DOMAIN barrier_hex : n \in GridDisk(h)}

\* func.py:401-403: the keys of new_barrier_hex, the cells of a disk of a barrier
\* hexagon that are not barrier hexagons themselves
NewBarrierKeys(barrier_hex) ==
    (UNION {GridDisk(h) : h \in DOMAIN barrier_hex}) \ DOMAIN barrier_hex

\* impute(barrier_hex) accepting a neighbor one entry early
Impute_OneEntryLess(barrier_hex) ==
    LET kept == {n \in NewBarrierKeys(barrier_hex) :
                    Cardinality(Contributors(barrier_hex, n)) >= MinEntries - 1}
    IN  [n \in kept |->
            RoundDiv(SumSet(barrier_hex, Contributors(barrier_hex, n)),
                     Cardinality(Contributors(barrier_hex, n)))]

\* impute(barrier_hex) counting the hexagons of the input of the call only
Impute_OriginalOnly(barrier_hex) ==
    LET kept == {n \in NewBarrierKeys(im_barrier_hex) :
                    Cardinality(Contributors(im_barrier_hex, n)) >= MinEntries}
    IN  [n \in kept |->
            RoundDiv(SumSet(im_barrier_hex, Contributors(im_barrier_hex, n)),
                     Cardinality(Contributors(im_barrier_hex, n)))]

\* func.py:386-411: impute(barrier_hex), one round
Impute(barrier_hex) ==
    LET kept == {n \in NewBarrierKeys(barrier_hex) :
                    Cardinality(Contributors(barrier_hex, n)) >= MinEntries}
    IN  [n \in kept |->
            RoundDiv(SumSet(barrier_hex, Contributors(barrier_hex, n)),
                     Cardinality(Contributors(barrier_hex, n)))]

\* RemoveOriginal without the filter of line 421
RemoveOriginal_NoFilter(imputed_hex, barrier_hex) == imputed_hex

\* func.py:421: the cumulative map without the hexagons of the input
RemoveOriginal(imputed_hex, barrier_hex) ==
    Restrict(imputed_hex, (DOMAIN imputed_hex) \ (DOMAIN barrier_hex))

\* the barrier maps of the inputs: any map from cells of the patch to values
BarrierMaps ==
    LET None == 0
        total == [Patch1 -> ImVals \cup {None}]
    IN  {Restrict(f, {c \in Patch1 : f[c] # None}) : f \in total}

\* func.py:414: imputed_hex = barrier_hex.copy()
ImInit ==
    /\ im_barrier_hex \in BarrierMaps
    /\ im_num_runs \in 0..MaxRuns
    /\ im_imputed_hex = im_barrier_hex
    /\ im_run = 0
    /\ im_result = EmptyMap
    /\ im_pc = "loop"

\* func.py:417-418: one round of the for loop
ImputeRun ==
    /\ im_pc = "loop"
    /\ im_run < im_num_runs
    /\ im_imputed_hex' = Update(im_imputed_hex, Impute(im_imputed_hex))
    /\ im_run' = im_run + 1
    /\ UNCHANGED <<im_barrier_hex, im_num_runs, im_result, im_pc>>
    /\ UNCHANGED notImVars

\* func.py:421-423: the loop is over, the result is filtered and returned
ImputeReturn ==
    /\ im_pc = "loop"
    /\ im_run = im_num_runs
    /\ im_result' = RemoveOriginal(im_imputed_hex, im_barrier_hex)
    /\ im_pc' = "done"
    /\ UNCHANGED <<im_barrier_hex, im_num_runs, im_imputed_hex, im_run>>
    /\ UNCHANGED notImVars

-----------------------------------------------------------------------------
(* scale_distances (func.py:426-486) *)

\* the most pairs a time bin of the inputs holds
MaxScPairs == 2

\* the default of the parameter resolution of get_km_distance (func.py:437)
DefaultResolution == 3

\* math.inf, greater than every distance of the model
Inf == 2 ^ 30

\* the cells, genetic distances (1e-5), resolutions and predictions of the inputs
ScCells == {<<0, 0>>, <<1, 0>>, <<3, 0>>}
ScGenVals == {0, 20000, 40000}
ScResolutions == {2, 3}
PredVals == {0 - 20000, 0, 20000, 40000}
SupportKm == {119, 357}

\* the distance in km between the centers of two cells, haversine(coord1, coord2):
\* 119 km between the centers of two neighboring cells
Haversine(hex1, hex2) == 119 * GridDistance(hex1, hex2)

\* func.py:449-450: 1281 / (2.65 ** resolution), rounded to a km
SelfKm(resolution) == RoundDiv(1281 * (100 ^ resolution), 265 ^ resolution)

\* func.py:437-454: get_km_distance(hex1, hex2, resolution); hex2 is NoHex for
\* the call with one cell
GetKmDistance(hex1, hex2, resolution) ==
    IF hex2 = NoHex THEN SelfKm(resolution) ELSE Haversine(hex1, hex2)

\* func.py:457: get_km_distance(*pair): the cells of the pair are the positional
\* arguments, resolution is not passed and takes its default
KmOfPair(pair) ==
    LET hex1 == CHOOSE x \in pair : TRUE
    IN  IF Cardinality(pair) = 1
        THEN GetKmDistance(hex1, NoHex, DefaultResolution)
        ELSE GetKmDistance(hex1, CHOOSE x \in pair : x # hex1, DefaultResolution)

\* the km column of a prediction
PredKm(pred) == {pred[i][1] : i \in 1..Len(pred)}

\* the last row of those nearest to km_distance
NearestRow_Last(pred, km_distance) ==
    CHOOSE i \in 1..Len(pred) :
        /\ \A j \in 1..Len(pred) :
                Abs(pred[i][1] - km_distance) <= Abs(pred[j][1] - km_distance)
        /\ \A j \in (i + 1)..Len(pred) :
                Abs(pred[j][1] - km_distance) > Abs(pred[i][1] - km_distance)

\* func.py:476: np.argmin(np.abs(pred[:, 0] - km_distance)): the first row of
\* those nearest to km_distance
NearestRow(pred, km_distance) ==
    CHOOSE i \in 1..Len(pred) :
        /\ \A j \in 1..Len(pred) :
                Abs(pred[i][1] - km_distance) <= Abs(pred[j][1] - km_distance)
        /\ \A j \in 1..(i - 1) :
                Abs(pred[j][1] - km_distance) > Abs(pred[i][1] - km_distance)

\* func.py:473-476: the km distance the prediction is looked up at
LookupKm(pred, km_distance) ==
    IF km_distance \notin PredKm(pred)
    THEN pred[NearestRow(pred, km_distance)][1]
    ELSE km_distance

\* func.py:478: pred[pred[:, 0] == km_distance][:, 1][0]: the prediction of the
\* first row with that km distance
PredAt(pred, km_distance) ==
    LET i == CHOOSE k \in 1..Len(pred) :
                /\ pred[k][1] = km_distance
                /\ \A j \in 1..(k - 1) : pred[j][1] # km_distance
    IN  pred[i][2]

RECURSIVE Normalize(_, _, _)
\* <<n', d', e>> with n / d = (n' / d') * 2^e and 1 <= n' / d' < 2
Normalize(n, d, e) ==
    IF n < d THEN Normalize(2 * n, d, e - 1)
    ELSE IF n >= 2 * d THEN Normalize(n, 2 * d, e + 1)
    ELSE <<n, d, e>>

RECURSIVE FractionBits(_, _, _)
\* the first k binary digits of log2(m / 4096) for 4096 <= m < 8192, as a
\* number of 2^-k: square the mantissa, take a 1 and halve when it reaches 2
FractionBits(m, k, acc) ==
    IF k = 0 THEN acc
    ELSE LET sq == (m * m) \div 4096
         IN  IF sq >= 8192
             THEN FractionBits(sq \div 2, k - 1, 2 * acc + 1)
             ELSE FractionBits(sq, k - 1, 2 * acc)

\* round(math.log2(n / d), 2) for n, d > 0, in hundredths (to within one
\* hundredth: the logarithm is computed to 10 binary digits)
Log2Hundredths(n, d) ==
    LET hi == IF n >= d THEN n ELSE d
        lo == IF n >= d THEN d ELSE n
        nde == Normalize(hi, lo, 0)
        m == (nde[1] * 4096) \div nde[2]
        fb == FractionBits(m, 10, 0)
        log == RoundDiv((nde[3] * 1024 + fb) * 100, 1024)
    IN  IF n >= d THEN log ELSE 0 - log

\* func.py:484: whether math.log2(gen_distance / gen_distance_pred) raises: the
\* logarithm of 0 or of a negative number is a math domain error (0 / 0 is nan,
\* whose logarithm is nan)
Log2Raises(gen_distance, gen_distance_pred) ==
    \/ gen_distance = 0 /\ gen_distance_pred # 0
    \/ gen_distance > 0 /\ gen_distance_pred < 0
    \/ gen_distance < 0 /\ gen_distance_pred > 0

\* func.py:484: round(math.log2(gen_distance / gen_distance_pred), 2) when it
\* does not raise; numpy divides by 0 to infinity
ScaledLog(gen_distance, gen_distance_pred) ==
    IF gen_distance_pred = 0 THEN Inf
    ELSE Log2Hundredths(Abs(gen_distance), Abs(gen_distance_pred))

\* func.py:480-484: the scaled distance of a pair
ScaledValue(gen_distance, gen_distance_pred) ==
    IF gen_distance = 0 THEN 0
    ELSE ScaledLog(gen_distance, gen_distance_pred)

\* ScaleRaises with the guard of line 480 on the predicted distance, as the
\* comment of line 479 has it, instead of the observed one
ScaleRaises_GuardOnPred(gen_distance, gen_distance_pred) ==
    IF gen_distance_pred = 0 THEN FALSE
    ELSE Log2Raises(gen_distance, gen_distance_pred)

\* func.py:480-484: whether the pass of the loop for the pair raises
ScaleRaises(gen_distance, gen_distance_pred) ==
    IF gen_distance = 0 THEN FALSE
    ELSE Log2Raises(gen_distance, gen_distance_pred)

\* func.py:473-484: the scaled distance of a pair of the time bin
ScaledOf(pair, gen_distance, pred) ==
    ScaledValue(gen_distance, PredAt(pred, LookupKm(pred, KmOfPair(pair))))

\* func.py:473-484: whether the pass of the loop for a pair of the time bin raises
RaisesOf(pair, gen_distance, pred) ==
    ScaleRaises(gen_distance, PredAt(pred, LookupKm(pred, KmOfPair(pair))))

\* the set {a, b} as the list of its elements in increasing order
Sorted2(S) ==
    IF Cardinality(S) = 1 THEN <<CHOOSE x \in S : TRUE>>
    ELSE LET lo == CHOOSE x \in S : \A y \in S : x <= y
         IN  <<lo, CHOOSE y \in S : y # lo>>

\* the rows of a prediction with the km distances of K, sorted by km, f giving
\* the predicted distance at each
RowsOf(K, f) ==
    IF Cardinality(K) = 0 THEN <<>>
    ELSE IF Cardinality(K) <= 2 THEN [i \in 1..Cardinality(K) |-> <<Sorted2(K)[i], f[Sorted2(K)[i]]>>]
    ELSE LET lo == CHOOSE x \in K : \A y \in K : x <= y
         IN  <<<<lo, f[lo]>>>> \o
             [i \in 1..2 |-> <<Sorted2(K \ {lo})[i], f[Sorted2(K \ {lo})[i]]>>]

\* the predictions a caller hands in: rows over some of the support points
PredTables ==
    UNION {{RowsOf(K, f) : f \in [K -> PredVals]} : K \in (SUBSET SupportKm) \ {{}}}

\* the keys of the time bins of the inputs: pairs of two cells and single cells
ScKeys == PairsOf(ScCells) \cup {{c} : c \in ScCells}

ScTimeBins ==
    UNION {[P -> ScGenVals] :
            P \in {Q \in SUBSET ScKeys : Cardinality(Q) \in 1..MaxScPairs}}

\* func.py:465-466: the outcomes of lowess(gen_distances, geo_distances): a row
\* for each km distance of the time bin with some predicted distance of vals
Lowess(time_bin, vals) ==
    LET K == {KmOfPair(p) : p \in DOMAIN time_bin}
    IN  {RowsOf(K, f) : f \in [K -> vals]}

\* a fit whatever was handed in
Prediction_Refit(exsiting_pred, fitted) == fitted

\* func.py:463-468: gen_distances_pred, fitted only when no prediction was
\* handed in
Prediction(exsiting_pred, fitted) ==
    IF exsiting_pred = NoPred THEN fitted ELSE exsiting_pred

\* a call of scale_distances with its arguments
ScInit ==
    /\ sc_time_bin \in ScTimeBins
    /\ sc_exsiting_pred \in {NoPred} \cup PredTables
    /\ sc_resolution \in ScResolutions
    /\ sc_pred = NoPred
    /\ sc_fits = 0
    /\ sc_todo = DOMAIN sc_time_bin
    /\ sc_output = EmptyMap
    /\ sc_raised = {}
    /\ sc_pc = "start"

\* func.py:463-466: no prediction was handed in; LOESS fits one, a row for each
\* km distance of the time bin with some predicted distance
ScFit ==
    /\ sc_pc = "start"
    /\ sc_exsiting_pred = NoPred
    /\ \E fitted \in Lowess(sc_time_bin, PredVals) :
        sc_pred' = Prediction(sc_exsiting_pred, fitted)
    /\ sc_fits' = sc_fits + 1
    /\ sc_pc' = "loop"
    /\ UNCHANGED <<sc_time_bin, sc_exsiting_pred, sc_resolution, sc_todo, sc_output,
                   sc_raised>>
    /\ UNCHANGED notScVars

\* func.py:467-468: the prediction handed in is used
ScReuse ==
    /\ sc_pc = "start"
    /\ sc_exsiting_pred # NoPred
    /\ \E fitted \in Lowess(sc_time_bin, PredVals) :
        sc_pred' = Prediction(sc_exsiting_pred, fitted)
    /\ sc_pc' = "loop"
    /\ UNCHANGED <<sc_time_bin, sc_exsiting_pred, sc_resolution, sc_fits, sc_todo,
                   sc_output, sc_raised>>
    /\ UNCHANGED notScVars

\* func.py:472-484: one pass of the loop over the pairs of the time bin
ScPair ==
    /\ sc_pc = "loop"
    /\ \E pair \in sc_todo :
        LET gen_distance == sc_time_bin[pair]
        IN  IF RaisesOf(pair, gen_distance, sc_pred)
            THEN /\ sc_raised' = sc_raised \cup {pair}
                 /\ sc_pc' = "raised"
                 /\ UNCHANGED <<sc_output, sc_todo>>
            ELSE /\ sc_output' = Update(sc_output,
                        [k \in {pair} |-> ScaledOf(pair, gen_distance, sc_pred)])
                 /\ sc_todo' = sc_todo \ {pair}
                 /\ UNCHANGED <<sc_raised, sc_pc>>
    /\ UNCHANGED <<sc_time_bin, sc_exsiting_pred, sc_resolution, sc_pred, sc_fits>>
    /\ UNCHANGED notScVars

\* func.py:486: return output, gen_distances_pred
ScReturn ==
    /\ sc_pc = "loop"
    /\ sc_todo = {}
    /\ sc_pc' = "done"
    /\ UNCHANGED <<sc_time_bin, sc_exsiting_pred, sc_resolution, sc_pred, sc_fits,
                   sc_todo, sc_output, sc_raised>>
    /\ UNCHANGED notScVars

-----------------------------------------------------------------------------
(* find_closest_population (func.py:294-372) *)

\* the most cells the list isolated_hex of the inputs holds
MaxIsolated == 2

\* the samples, cells, matrix entries, thresholds and predictions of the inputs
FcSamples == {1, 2, 3}
FcCells == {<<0, 0>>, <<1, 0>>, <<3, 0>>}
FcMatVals == {20, 80}
FcThresholds == {0, 100}
FcPredVals == {0 - 20, 40}
FcPredTables == {RowsOf(SupportKm, f) : f \in [SupportKm -> FcPredVals]}

\* func.py:349-358: one pass of the loop over the hexagons of the bin
FcScan ==
    /\ fc_pc = "loop"
    /\ fc_i <= Len(fc_isolated_hex)
    /\ fc_j <= Len(fc_hexagons)
    /\ LET iso == fc_isolated_hex[fc_i]
           hex == fc_hexagons[fc_j]
           distance == CalcAvgDist(fc_samples_in_hex[iso], fc_samples_in_hex[hex],
                                   fc_dist_matrix)
       IN  IF hex = iso
           THEN UNCHANGED <<fc_distance, fc_min_dist, fc_closest_hex>>
           ELSE /\ fc_distance' = distance
                /\ IF Less(distance, fc_min_dist)
                   THEN fc_min_dist' = distance /\ fc_closest_hex' = hex
                   ELSE UNCHANGED <<fc_min_dist, fc_closest_hex>>
    /\ fc_j' = fc_j + 1
    /\ UNCHANGED <<fc_samples_in_hex, fc_dist_matrix, fc_hexagons, fc_isolated_hex,
                   fc_threshold, fc_pred, fc_i, fc_compared, fc_closest_populations,
                   fc_new_isolated_hex, fc_pc>>
    /\ UNCHANGED notFcVars

\* func.py:361: all_dist[frozenset([iso, closest_hex])] = round(distance, 2)
AllDistValue(distance, min_dist) == Round(distance)

\* the scaled distance of line 364 as the value of the link
LinkValue_Scaled(min_dist, scaled) == scaled

\* func.py:368: the value of closest_populations[pair] = round(min_dist, 2)
LinkValue(min_dist, scaled) == Round(min_dist)

\* func.py:360-370 and 343-345 for the next isolated cell: the distance is
\* scaled with the prediction handed in and compared with the threshold
FcDecide ==
    /\ fc_pc = "loop"
    /\ fc_i <= Len(fc_isolated_hex)
    /\ fc_j > Len(fc_hexagons)
    /\ LET iso == fc_isolated_hex[fc_i]
           pair == {iso, fc_closest_hex}
           gen_distance == AllDistValue(fc_distance, fc_min_dist)
           all_dist == [k \in {pair} |-> gen_distance]
       IN  IF fc_distance = Unbound
           THEN \* line 361 reads a local that was never assigned
                /\ fc_pc' = "raised"
                /\ UNCHANGED <<fc_compared, fc_closest_populations, fc_new_isolated_hex,
                               fc_i, fc_j, fc_min_dist, fc_closest_hex>>
           ELSE \E fitted \in Lowess(all_dist, FcPredVals) :
                \* line 364: scale_distances(all_dist, gen_distances_pred, resolution)
                LET pred == Prediction(fc_pred, fitted)
                IN  IF RaisesOf(pair, gen_distance, pred)
                    THEN /\ fc_pc' = "raised"
                         /\ fc_compared' = Update(fc_compared, [k \in {iso} |-> gen_distance])
                         /\ UNCHANGED <<fc_closest_populations, fc_new_isolated_hex,
                                        fc_i, fc_j, fc_min_dist, fc_closest_hex>>
                    ELSE /\ fc_compared' = Update(fc_compared, [k \in {iso} |-> gen_distance])
                         /\ IF ScaledOf(pair, gen_distance, pred) < fc_threshold
                            THEN /\ fc_closest_populations' =
                                        Update(fc_closest_populations,
                                               [k \in {<<iso, fc_closest_hex>>} |->
                                                    LinkValue(fc_min_dist,
                                                              ScaledOf(pair, gen_distance, pred))])
                                 /\ UNCHANGED fc_new_isolated_hex
                            ELSE /\ fc_new_isolated_hex' = Append(fc_new_isolated_hex, iso)
                                 /\ UNCHANGED fc_closest_populations
                         /\ fc_i' = fc_i + 1
                         /\ fc_j' = 1
                         /\ fc_min_dist' = InfDist
                         /\ fc_closest_hex' = NoHex
                         /\ UNCHANGED fc_pc
    /\ UNCHANGED <<fc_samples_in_hex, fc_dist_matrix, fc_hexagons, fc_isolated_hex,
                   fc_threshold, fc_pred, fc_distance>>
    /\ UNCHANGED notFcVars

\* func.py:372: return closest_populations, new_isolated_hex
FcReturn ==
    /\ fc_pc = "loop"
    /\ fc_i > Len(fc_isolated_hex)
    /\ fc_pc' = "done"
    /\ UNCHANGED <<fc_samples_in_hex, fc_dist_matrix, fc_hexagons, fc_isolated_hex,
                   fc_threshold, fc_pred, fc_i, fc_j, fc_min_dist, fc_closest_hex,
                   fc_distance, fc_compared, fc_closest_populations,
                   fc_new_isolated_hex>>
    /\ UNCHANGED notFcVars

\* func.py:312-345: a call with its arguments; the table of the bin puts every
\* sample into a cell, isolated_hex lists cells of the bin
FcInit ==
    /\ \E assign \in [FcSamples -> FcCells] :
        /\ fc_samples_in_hex = SamplesInHex(assign)
        /\ fc_hexagons \in ListsOf(DOMAIN fc_samples_in_hex,
                                   Cardinality(DOMAIN fc_samples_in_hex))
    /\ fc_dist_matrix \in DistMatrices(FcSamples, FcMatVals)
    /\ fc_isolated_hex \in
            UNION {ListsOf(DOMAIN fc_samples_in_hex, n) : n \in 1..MaxIsolated}
    /\ fc_threshold \in FcThresholds
    /\ fc_pred \in FcPredTables
    /\ fc_i = 1
    /\ fc_j = 1
    /\ fc_min_dist = InfDist
    /\ fc_closest_hex = NoHex
    /\ fc_distance = Unbound
    /\ fc_compared = EmptyMap
    /\ fc_closest_populations = EmptyMap
    /\ fc_new_isolated_hex = <<>>
    /\ fc_pc = "loop"

-----------------------------------------------------------------------------
(* calc_neighbor_dist (func.py:48-129) *)

\* the samples, cells and matrix entries of the inputs
NdSamples == {1, 2, 3, 4}
NdCells == {<<0, 0>>, <<1, 0>>, <<0, 1>>}
NdMatVals == {1, 2}

\* the fewest points scipy's Delaunay takes in the plane
MinPoints == 3

\* time_bin_df[hex_col].unique() (func.py:170): the cells in the order in which
\* the table, listed by sample ID, first names them
Unique(samples_in_hex) ==
    LET firsts == SetToSeq({samples_in_hex[c][1] : c \in DOMAIN samples_in_hex})
    IN  [i \in 1..Len(firsts) |->
            CHOOSE c \in DOMAIN samples_in_hex : samples_in_hex[c][1] = firsts[i]]

\* the position of a cell in a list of different cells
IndexOf(l, c) == CHOOSE i \in 1..Len(l) : l[i] = c

\* func.py:89: tri.simplices of Delaunay(coords): some set of triangles over
\* the cells; a cell Qhull finds coplanar with others is on no triangle
Triangulations(hexagons) ==
    LET cells == {hexagons[i] : i \in 1..Len(hexagons)}
        triangles == {t \in SUBSET cells : Cardinality(t) = 3}
    IN  {T \in SUBSET triangles : T # {}}

\* func.py:92-96: the edges of the triangles, each as the tuple of its two
\* cells sorted by position in hexagons
Edges(simplices, hexagons) ==
    {<<a, b>> \in UNION {t \X t : t \in simplices} :
        IndexOf(hexagons, a) < IndexOf(hexagons, b)}

\* dict.setdefault(key, []).append(value) on the dictionary <<keys, lists>>
SetDefaultAppend(dict, key, value) ==
    IF key \in DOMAIN dict[2]
    THEN <<dict[1], [dict[2] EXCEPT ![key] = Append(@, value)]>>
    ELSE <<Append(dict[1], key), Update(dict[2], [k \in {key} |-> <<value>>])>>

RECURSIVE NeighborsOf(_, _)
\* func.py:99-102: neighbors after the first n edges of the list edges
NeighborsOf(edges, n) ==
    IF n = 0 THEN <<<<>>, EmptyMap>>
    ELSE LET e == edges[n]
         IN  SetDefaultAppend(SetDefaultAppend(NeighborsOf(edges, n - 1), e[1], e[2]),
                              e[2], e[1])

AddMissing_Skip(dict, hexagons, n) == dict

RECURSIVE AddMissing(_, _, _)
\* func.py:110-112: the cells without a neighbor get an empty list
AddMissing(dict, hexagons, n) ==
    IF n = 0 THEN dict
    ELSE LET before == AddMissing(dict, hexagons, n - 1)
             hexagon == hexagons[n]
         IN  IF hexagon \in DOMAIN before[2] THEN before
             ELSE <<Append(before[1], hexagon),
                    Update(before[2], [k \in {hexagon} |-> <<>>])>>

\* func.py:74-112: get_neighbors(hexagons) and the cells it left out; the set
\* edges is walked in some order. Delaunay raises when given too few points.
NdGetNeighbors ==
    /\ nd_pc = "start"
    /\ IF Len(nd_hexagons) < MinPoints
       THEN /\ nd_pc' = "raised"
            /\ UNCHANGED <<nd_keys, nd_neighbors, nd_k, nd_n, nd_simplices>>
       ELSE \E simplices \in Triangulations(nd_hexagons) :
            LET edge_set == Edges(simplices, nd_hexagons)
            IN  \E edges \in ListsOf(edge_set, Cardinality(edge_set)) :
                LET dict == AddMissing(NeighborsOf(edges, Len(edges)),
                                       nd_hexagons, Len(nd_hexagons))
                IN  /\ nd_keys' = dict[1]
                    /\ nd_neighbors' = dict[2]
                    /\ nd_k' = 1
                    /\ nd_n' = 1
                    /\ nd_simplices' = simplices
                    /\ nd_pc' = "loop"
    /\ UNCHANGED <<nd_samples_in_hex, nd_dist_matrix, nd_hexagons, nd_averages,
                   nd_written>>
    /\ UNCHANGED notNdVars

\* the value line 127 would store twice over: added to the one already there
NewAverage_Accumulate(averages, pair, distance) ==
    (IF pair \in DOMAIN averages THEN averages[pair] ELSE 0) + Round(distance)

\* func.py:127: the value of averages[pair] = round(distance, 5)
NewAverage(averages, pair, distance) == Round(distance)

\* func.py:117-127: one pass of the inner loop, for the cell hexagon and the
\* next entry of its neighbor list, which ends with the cell itself
NdPair ==
    /\ nd_pc = "loop"
    /\ nd_k <= Len(nd_keys)
    /\ LET hexagon == nd_keys[nd_k]
           neighbor_list == IF nd_n = 1 THEN Append(nd_neighbors[hexagon], hexagon)
                            ELSE nd_neighbors[hexagon]
           neighbor == neighbor_list[nd_n]
           pair == {hexagon, neighbor}
           distance == CalcAvgDist(nd_samples_in_hex[hexagon],
                                   nd_samples_in_hex[neighbor], nd_dist_matrix)
           value == NewAverage(nd_averages, pair, distance)
       IN  /\ nd_neighbors' = [nd_neighbors EXCEPT ![hexagon] = neighbor_list]
           /\ nd_averages' = Update(nd_averages, [k \in {pair} |-> value])
           /\ nd_written' =
                Update(nd_written,
                       [k \in {pair} |->
                            IF pair \in DOMAIN nd_written
                            THEN Append(nd_written[pair], value) ELSE <<value>>])
           /\ IF nd_n < Len(neighbor_list)
              THEN nd_n' = nd_n + 1 /\ UNCHANGED nd_k
              ELSE nd_n' = 1 /\ nd_k' = nd_k + 1
    /\ UNCHANGED <<nd_samples_in_hex, nd_dist_matrix, nd_hexagons, nd_keys,
                   nd_simplices, nd_pc>>
    /\ UNCHANGED notNdVars

\* func.py:129: return averages
NdReturn ==
    /\ nd_pc = "loop"
    /\ nd_k > Len(nd_keys)
    /\ nd_pc' = "done"
    /\ UNCHANGED <<nd_samples_in_hex, nd_dist_matrix, nd_hexagons, nd_keys,
                   nd_neighbors, nd_k, nd_n, nd_averages, nd_written,
                   nd_simplices>>
    /\ UNCHANGED notNdVars

\* func.py:62-71: a call for the table of one time bin, which puts every sample
\* into a cell, and a symmetric matrix
NdInit ==
    /\ \E assign \in [NdSamples -> NdCells] :
        nd_samples_in_hex = SamplesInHex(assign)
    /\ nd_hexagons = Unique(nd_samples_in_hex)
    /\ nd_dist_matrix \in DistMatrices(NdSamples, NdMatVals)
    /\ nd_keys = <<>>
    /\ nd_neighbors = EmptyMap
    /\ nd_k = 0
    /\ nd_n = 0
    /\ nd_averages = EmptyMap
    /\ nd_written = EmptyMap
    /\ nd_simplices = {}
    /\ nd_pc = "start"

-----------------------------------------------------------------------------
(* calc_avg_dist for any two cells (func.py:33-45, 119-127) *)

\* the samples of the inputs
AdSamples == {1, 2, 3}

\* numpy's nan, the mean of no entry: the quotient 0 / 0
NaN == <<0, 0>>

\* samples_in_hex.get(hex, [])
GetSamples(samples_in_hex, hex) ==
    IF hex \in DOMAIN samples_in_hex THEN samples_in_hex[hex] ELSE <<>>

\* round(distance, 5), which leaves nan as it is
RoundOrNaN(distance) == IF distance[2] = 0 THEN NaN ELSE Round(distance)

\* func.py:119-125: distance = calc_avg_dist(ids_in_hexagon, ids_in_neighbor,
\* dist_matrix); the mean of an empty block is nan, with a warning
AdAverage ==
    /\ ad_pc = "call"
    /\ ad_distance' = CalcAvgDist(GetSamples(ad_samples_in_hex, ad_hexagon),
                                  GetSamples(ad_samples_in_hex, ad_neighbor),
                                  ad_dist_matrix)
    /\ ad_pc' = "returned"
    /\ UNCHANGED <<ad_samples_in_hex, ad_dist_matrix, ad_hexagon, ad_neighbor,
                   ad_averages>>
    /\ UNCHANGED notAdVars

\* func.py:127: averages[pair] = round(distance, 5)
AdStore ==
    /\ ad_pc = "returned"
    /\ ad_averages' = Update(ad_averages,
                             [k \in {{ad_hexagon, ad_neighbor}} |-> RoundOrNaN(ad_distance)])
    /\ ad_pc' = "stored"
    /\ UNCHANGED <<ad_samples_in_hex, ad_dist_matrix, ad_hexagon, ad_neighbor,
                   ad_distance>>
    /\ UNCHANGED notAdVars

\* two cells of which each may hold samples or none, and a symmetric matrix
AdInit ==
    /\ \E S \in SUBSET AdSamples :
        \E assign \in [S -> NdCells] : ad_samples_in_hex = SamplesInHex(assign)
    /\ ad_dist_matrix \in DistMatrices(AdSamples, NdMatVals)
    /\ ad_hexagon \in NdCells
    /\ ad_neighbor \in NdCells
    /\ ad_distance = Unbound
    /\ ad_averages = EmptyMap
    /\ ad_pc = "call"

-----------------------------------------------------------------------------
(* The main flow of app.py (app.py:85-189) *)

\* app.py:119: the first value of st.session_state['isolated_threshold']
DefaultIsolatedThreshold == 40

\* app.py:106: the first value of st.session_state['selected_time_bin_id']
InitialTimeBinId == 1

\* the values the user gives the threshold slider and the indices of the time
\* bins in the selectbox
AppThresholds == {0, 20, 40, 60, 80, 100}
TimeBinIds == {0, 1, 2}

\* the results of the functions app.py calls at lines 132-134, named by the time
\* bin and the threshold they were called with
DerivedFor(time_bin, threshold) == <<time_bin, threshold>>

\* the result of find_closest_population at lines 140-144, named likewise
ClosestFor(time_bin_index, threshold) == <<time_bin_index, threshold>>

\* what the call of lines 140-144 may do: return its result, or raise as
\* find_closest_population does for an isolated cell alone in its time bin
\* (func.py:361) and for an expected distance below 0 (func.py:364, 484)
Raises == <<"raises">>
ClosestOutcomes(time_bin_index, threshold) ==
    {ClosestFor(time_bin_index, threshold), Raises}

\* app.py:73-82: the button Run
AppRun ==
    /\ app_pc = "setup"
    /\ app_setup_done' = TRUE
    /\ app_pc' = "run"
    /\ UNCHANGED <<app_isolated_threshold, app_selected_time_bin_id, app_derived,
                   app_closest, app_slider, app_selectbox>>
    /\ UNCHANGED notAppVars

\* app.py:87-89: the button Return to Home
AppHome ==
    /\ app_pc \in {"shown", "failed"}
    /\ app_setup_done' = FALSE
    /\ app_isolated_threshold' = NoNumber
    /\ app_selected_time_bin_id' = NoNumber
    /\ app_derived' = Absent
    /\ app_closest' = Absent
    /\ app_slider' = NoNumber
    /\ app_selectbox' = NoNumber
    /\ app_pc' = "setup"
    /\ UNCHANGED notAppVars

\* app.py:91-189: one run of the script once the setup is done. The first run
\* shows the widgets at their defaults; a later run is started by the user, who
\* may have moved the slider or picked another time bin. An exception ends the
\* run where it is raised and keeps what the run wrote to the session before.
AppScript ==
    /\ app_pc \in {"run", "shown", "failed"}
    /\ app_setup_done
    /\ LET first == app_isolated_threshold = NoNumber
           selected_time_bin_id == IF app_selected_time_bin_id = NoNumber
                                   THEN InitialTimeBinId ELSE app_selected_time_bin_id
           isolated_threshold == IF first THEN DefaultIsolatedThreshold
                                 ELSE app_isolated_threshold
       IN  \E new_selected_time_bin_id \in IF first THEN {0} ELSE TimeBinIds :
           \E new_isolated_threshold \in IF first THEN {isolated_threshold}
                                         ELSE AppThresholds :
            /\ app_selectbox' = new_selected_time_bin_id
            /\ app_slider' = new_isolated_threshold
            /\ IF \/ new_isolated_threshold # isolated_threshold
                  \/ new_selected_time_bin_id # selected_time_bin_id
               THEN \* lines 132-138
                    /\ app_derived' = DerivedFor(new_selected_time_bin_id,
                                                 isolated_threshold)
                    /\ app_isolated_threshold' = new_isolated_threshold
                    /\ app_selected_time_bin_id' = new_selected_time_bin_id
                    \* lines 140-144: find_closest_population returns or raises
                    /\ \E closest \in ClosestOutcomes(new_selected_time_bin_id,
                                                       new_isolated_threshold) :
                        IF closest = Raises
                        THEN /\ UNCHANGED app_closest
                             /\ app_pc' = "failed"
                        ELSE /\ app_closest' = closest
                             /\ app_pc' = "shown"
               ELSE /\ app_isolated_threshold' = isolated_threshold
                    /\ app_selected_time_bin_id' = selected_time_bin_id
                    /\ UNCHANGED <<app_derived, app_closest>>
                    \* lines 173-189 read the results of the session
                    /\ app_pc' = IF app_derived' = Absent THEN "raised" ELSE "shown"
    /\ UNCHANGED app_setup_done
    /\ UNCHANGED notAppVars

\* app.py:29-82: the setup screen, nothing in the session yet
AppInit ==
    /\ app_setup_done = FALSE
    /\ app_isolated_threshold = NoNumber
    /\ app_selected_time_bin_id = NoNumber
    /\ app_derived = Absent
    /\ app_closest = Absent
    /\ app_slider = NoNumber
    /\ app_selectbox = NoNumber
    /\ app_pc = "setup"

-----------------------------------------------------------------------------
(* create_age_groups (func.py:590-614, label_samples_time_hexa.py:47-71) *)

\* the most samples of df and the most bins asked for
MaxSamples == 4
MaxBins == 3

\* the ages of the inputs
AgAges == {10, 20}

\* df.sort_values('Age'): the rows of df in an order of increasing age; rows of
\* equal age come in any order
SortValues(ages) ==
    {l \in ListsOf(1..Len(ages), Len(ages)) :
        \A i, j \in 1..Len(ages) : i < j => ages[l[i]] <= ages[l[j]]}

\* temp_df.iloc[start_index:end_index]
ILoc(temp_df, start_index, end_index) ==
    LET last == IF end_index <= Len(temp_df) THEN end_index ELSE Len(temp_df)
    IN  SubSeq(temp_df, start_index + 1, last)

\* end_index without the sample the remainder adds
EndIndex_NoRemainder(start_index, sample_per_bin, remainder) ==
    start_index + sample_per_bin

\* func.py:608: end_index
EndIndex(start_index, sample_per_bin, remainder) ==
    start_index + sample_per_bin + (IF remainder > 0 THEN 1 ELSE 0)

\* func.py:601-605: divmod, the sort, the empty list
AgSort ==
    /\ ag_pc = "start"
    /\ ag_sample_per_bin' = Len(ag_ages) \div ag_number_of_bins
    /\ ag_remainder' = Len(ag_ages) % ag_number_of_bins
    /\ ag_temp_df' \in SortValues(ag_ages)
    /\ ag_age_groups' = <<>>
    /\ ag_start_index' = 0
    /\ ag_bin_num' = 0
    /\ ag_pc' = "loop"
    /\ UNCHANGED <<ag_ages, ag_number_of_bins>>
    /\ UNCHANGED notAgVars

\* func.py:607-612: one pass of the loop over the bins
AgBin ==
    /\ ag_pc = "loop"
    /\ ag_bin_num < ag_number_of_bins
    /\ LET end_index == EndIndex(ag_start_index, ag_sample_per_bin, ag_remainder)
       IN  /\ ag_remainder' = IF ag_remainder > 0 THEN ag_remainder - 1 ELSE ag_remainder
           /\ ag_age_groups' = Append(ag_age_groups,
                                      ILoc(ag_temp_df, ag_start_index, end_index))
           /\ ag_start_index' = end_index
    /\ ag_bin_num' = ag_bin_num + 1
    /\ UNCHANGED <<ag_ages, ag_number_of_bins, ag_temp_df, ag_sample_per_bin, ag_pc>>
    /\ UNCHANGED notAgVars

\* func.py:614: return age_groups
AgReturn ==
    /\ ag_pc = "loop"
    /\ ag_bin_num = ag_number_of_bins
    /\ ag_pc' = "done"
    /\ UNCHANGED <<ag_ages, ag_number_of_bins, ag_temp_df, ag_sample_per_bin,
                   ag_remainder, ag_start_index, ag_bin_num, ag_age_groups>>
    /\ UNCHANGED notAgVars

\* a call with a table of samples and a number of bins
AgInit ==
    /\ ag_ages \in UNION {[1..n -> AgAges] : n \in 0..MaxSamples}
    /\ ag_number_of_bins \in 1..MaxBins
    /\ ag_temp_df = <<>>
    /\ ag_sample_per_bin = 0
    /\ ag_remainder = 0
    /\ ag_start_index = 0
    /\ ag_bin_num = 0
    /\ ag_age_groups = <<>>
    /\ ag_pc = "start"

-----------------------------------------------------------------------------
(* Specifications: one per function *)

IsoNext == IsoPair \/ IsoReturn \/ IsoCallAgain

InitIso == IsoInit /\ ImIdle /\ ScIdle /\ FcIdle /\ NdIdle /\ AdIdle /\ AppIdle /\ AgIdle /\ FlIdle /\ EgIdle

SpecIso == InitIso /\ [][IsoNext]_vars

ImNext == ImputeRun \/ ImputeReturn

InitImpute == ImInit /\ IsoIdle /\ ScIdle /\ FcIdle /\ NdIdle /\ AdIdle /\ AppIdle /\ AgIdle /\ FlIdle /\ EgIdle

SpecImpute == InitImpute /\ [][ImNext]_vars

ScNext == ScFit \/ ScReuse \/ ScPair \/ ScReturn

InitScale == ScInit /\ ImIdle /\ IsoIdle /\ FcIdle /\ NdIdle /\ AdIdle /\ AppIdle /\ AgIdle /\ FlIdle /\ EgIdle

SpecScale == InitScale /\ [][ScNext]_vars

FcNext == FcScan \/ FcDecide \/ FcReturn

InitClosest == FcInit /\ ImIdle /\ IsoIdle /\ ScIdle /\ NdIdle /\ AdIdle /\ AppIdle /\ AgIdle /\ FlIdle /\ EgIdle

SpecClosest == InitClosest /\ [][FcNext]_vars

AgNext == AgSort \/ AgBin \/ AgReturn

InitAgeGroups == AgInit /\ ImIdle /\ IsoIdle /\ ScIdle /\ FcIdle /\ NdIdle /\ AdIdle /\ AppIdle /\ FlIdle /\ EgIdle

SpecAgeGroups == InitAgeGroups /\ [][AgNext]_vars

AppNext == AppRun \/ AppScript \/ AppHome

InitApp == AppInit /\ ImIdle /\ IsoIdle /\ ScIdle /\ FcIdle /\ NdIdle /\ AdIdle /\ AgIdle /\ FlIdle /\ EgIdle

SpecApp == InitApp /\ [][AppNext]_vars

AdNext == AdAverage \/ AdStore

InitAvgDist == AdInit /\ ImIdle /\ IsoIdle /\ ScIdle /\ FcIdle /\ NdIdle /\ AppIdle /\ AgIdle /\ FlIdle /\ EgIdle

SpecAvgDist == InitAvgDist /\ [][AdNext]_vars

\* scale_distances called by itself or by find_closest_population
InitScaleClosest == InitScale \/ InitClosest

ScFcNext == ScNext \/ FcNext

SpecScaleClosest == InitScaleClosest /\ [][ScFcNext]_vars

NdNext == NdGetNeighbors \/ NdPair \/ NdReturn

InitNeighborDist == NdInit /\ ImIdle /\ IsoIdle /\ ScIdle /\ FcIdle /\ AdIdle /\ AppIdle /\ AgIdle /\ FlIdle /\ EgIdle

SpecNeighborDist == InitNeighborDist /\ [][NdNext]_vars

-----------------------------------------------------------------------------
(* Claims about get_isolated_hex_and_barriers *)

\* the other cell of a pair
Other(pair, h) == CHOOSE x \in pair : x # h

\* the pairs of the time bin that join h to a direct grid neighbor of it
DirectPairsOf(h) ==
    {p \in DOMAIN iso_time_bin : h \in p /\ Adjacent(h, Other(p, h))}

\* whether list holds the value v
Holds(lists, h, v) ==
    h \in DOMAIN lists /\ \E i \in 1..Len(lists[h]) : lists[h][i] = v

\* C4 as stated: with t1 <= t2, every cell reported as isolated with threshold
\* t1 is reported as isolated with threshold t2 (raising the threshold only adds
\* cells to the isolated set).
C4_RaisingAdds ==
    \A t1, t2 \in DOMAIN iso_runs :
        t1 <= t2 => iso_runs[t1] \subseteq iso_runs[t2]

\* C4 as amended: with t1 <= t2, every cell reported as isolated with threshold
\* t2 is reported as isolated with threshold t1 (raising the threshold only
\* removes cells from the isolated set).
C4_RaisingRemoves ==
    \A t1, t2 \in DOMAIN iso_runs :
        t1 <= t2 => iso_runs[t2] \subseteq iso_runs[t1]

\* the time bin was classified with two thresholds, and the higher one left a
\* non-empty isolated set that is smaller than that of the lower one
C4_Witness ==
    \E t1, t2 \in DOMAIN iso_runs :
        /\ t1 < t2
        /\ iso_runs[t2] # {}
        /\ iso_runs[t2] # iso_runs[t1]

\* C6: a cell that has direct-neighbor pairs is reported as isolated exactly
\* when the distance of every pair that joins it to a grid-adjacent cell is
\* >= the threshold; the pairs that join it to a non-adjacent cell do not
\* influence it.
C6_IsolatedByDirectNeighbors ==
    iso_pc = "done" =>
        \A h \in UNION (DOMAIN iso_time_bin) :
            DirectPairsOf(h) # {} =>
                (h \in iso_isolated_hex <=>
                    \A p \in DirectPairsOf(h) : iso_time_bin[p] >= iso_threshold)

\* C7: once the loop over the pairs is over, every pair of direct grid
\* neighbors has a barrier edge keyed by the boundary the two cells share, with
\* the distance of the pair as its value, and that distance is in the
\* direct-neighbor distance list of both cells.
C7_DirectNeighborEdge ==
    (iso_pc = "loop" /\ iso_todo = {}) =>
        \A p \in DOMAIN iso_time_bin :
            \A a \in p :
                Adjacent(a, Other(p, a)) =>
                    /\ SharedBoundary(a, Other(p, a)) \in DOMAIN iso_barrier_lines
                    /\ iso_barrier_lines[SharedBoundary(a, Other(p, a))] = iso_time_bin[p]
                    /\ Holds(iso_hex_dist, a, iso_time_bin[p])

\* whether a line is found between the cells of the pair that is at most
\* allowed_distance long
HasShortLine(p) ==
    \E a \in p :
        LET line == FindH3Line(a, Other(p, a), MaxIterations, iso_fail)
        IN  line # NoLine /\ Len(line) <= iso_allowed_distance

\* the cells of the lines of the pairs of P
LineCells(P) ==
    UNION { LET a == CHOOSE x \in p : TRUE
                line == FindH3Line(a, Other(p, a), MaxIterations, iso_fail)
            IN  {line[i] : i \in 1..Len(line)} : p \in P }

\* C8: the filtered pair map holds exactly the pairs of direct neighbors and the
\* non-adjacent pairs with a line of at most allowed_distance cells, each with
\* its distance; a pair with a longer line is in neither and paints no cell.
C8_FilteredPairs ==
    iso_pc = "done" =>
        LET direct == {p \in DOMAIN iso_time_bin : \A a \in p : Adjacent(a, Other(p, a))}
            short == {p \in (DOMAIN iso_time_bin) \ direct : HasShortLine(p)}
        IN  /\ DOMAIN iso_new_time_bin = direct \cup short
            /\ \A p \in DOMAIN iso_new_time_bin : iso_new_time_bin[p] = iso_time_bin[p]
            /\ DOMAIN iso_barrier_hex \subseteq LineCells(direct \cup short)

-----------------------------------------------------------------------------
(* Claims about scale_distances *)

\* the predicted distance the code looks up for a pair of the time bin
ExpectedOf(pair) == PredAt(sc_pred, LookupKm(sc_pred, KmOfPair(pair)))

-----------------------------------------------------------------------------
(* Claims about impute_missing_hexagons *)

\* C3: the map impute_missing_hexagons returns shares no key with the barrier
\* map it was given, for every barrier map and every number of rounds.
C3_ImputationDisjoint ==
    im_pc = "done" => (DOMAIN im_result) \cap (DOMAIN im_barrier_hex) = {}

\* a run of two rounds that returned an imputed cell for a non-empty input
C3_Witness ==
    /\ im_pc = "done"
    /\ im_num_runs >= 2
    /\ DOMAIN im_barrier_hex # {}
    /\ DOMAIN im_result # {}

-----------------------------------------------------------------------------
(* Claims about find_closest_population *)

\* the average distances from the cell iso to the other occupied cells of the bin
DistancesFrom(iso) ==
    {CalcAvgDist(fc_samples_in_hex[iso], fc_samples_in_hex[h], fc_dist_matrix) :
        h \in DOMAIN fc_samples_in_hex \ {iso}}

\* the minimum of these distances
MinimumFrom(iso) ==
    CHOOSE d \in DistancesFrom(iso) : \A e \in DistancesFrom(iso) : ~Less(e, d)

\* the cell at that minimum that the scan meets first
ClosestTo(iso) ==
    LET at(j) == CalcAvgDist(fc_samples_in_hex[iso], fc_samples_in_hex[fc_hexagons[j]],
                             fc_dist_matrix)
        hit == {j \in 1..Len(fc_hexagons) :
                    /\ fc_hexagons[j] # iso
                    /\ ~Less(MinimumFrom(iso), at(j))}
    IN  fc_hexagons[CHOOSE j \in hit : \A k \in hit : j <= k]

\* the cells of a list
Range(l) == {l[i] : i \in 1..Len(l)}

\* C9: for every isolated cell the distance handed to the scaling and compared
\* with the threshold is the minimum of the average distances from that cell to
\* the other occupied cells of the bin, whatever the order of the scan.
C9_ScaledIsMinimum ==
    \A iso \in DOMAIN fc_compared :
        fc_compared[iso] = Round(MinimumFrom(iso))

\* C10: in a bin with another occupied cell, after the call every isolated cell
\* whose scaled minimum is below the threshold has its link (isolated, closest)
\* and is not in the still-isolated list, and every other isolated cell is in
\* the still-isolated list and has no link.
C10_LinkOrStillIsolated ==
    (fc_pc = "done" /\ Len(fc_hexagons) >= 2) =>
        \A iso \in Range(fc_isolated_hex) :
            LET pair == {iso, ClosestTo(iso)}
                minimum == Round(MinimumFrom(iso))
                links == {k \in DOMAIN fc_closest_populations : k[1] = iso}
            IN  ~RaisesOf(pair, minimum, fc_pred) =>
                    IF ScaledOf(pair, minimum, fc_pred) < fc_threshold
                    THEN /\ links = {<<iso, ClosestTo(iso)>>}
                         /\ iso \notin Range(fc_new_isolated_hex)
                    ELSE /\ links = {}
                         /\ iso \in Range(fc_new_isolated_hex)

\* C11 as stated: the value of every link (isolated, closest) is the scaled
\* distance that was compared with the threshold.
C11_LinkHoldsScaled ==
    \A k \in DOMAIN fc_closest_populations :
        fc_closest_populations[k] = ScaledOf({k[1], k[2]}, fc_compared[k[1]], fc_pred)

\* C11, amended: the value of every link (isolated, closest) is the minimum of
\* the average distances from the isolated cell to the other cells of the bin,
\* rounded and not scaled, and closest is the first cell at that minimum.
C11_LinkHoldsRawMinimum ==
    \A k \in DOMAIN fc_closest_populations :
        /\ k[2] = ClosestTo(k[1])
        /\ fc_closest_populations[k] = Round(MinimumFrom(k[1]))

\* the call returned a link whose value is not the scaled distance compared
C11_Witness ==
    /\ fc_pc = "done"
    /\ \E k \in DOMAIN fc_closest_populations :
        fc_closest_populations[k] # ScaledOf({k[1], k[2]}, fc_compared[k[1]], fc_pred)

-----------------------------------------------------------------------------
(* Claims about calc_avg_dist and calc_neighbor_dist *)

\* the average distance from the cell A to the cell B of the bin
AverageOf(A, B) ==
    CalcAvgDist(nd_samples_in_hex[A], nd_samples_in_hex[B], nd_dist_matrix)

\* C1: for every two occupied cells A and B of the bin and every symmetric
\* matrix the average distance of (A, B) is that of (B, A), and the value stored
\* under {A, B} is that average rounded, whichever of the two cells was the
\* hexagon and whichever the neighbor.
C1_SymmetricAverage ==
    \A A, B \in DOMAIN nd_samples_in_hex :
        /\ AverageOf(A, B) = AverageOf(B, A)
        /\ {A, B} \in DOMAIN nd_averages =>
                /\ nd_averages[{A, B}] = Round(AverageOf(A, B))
                /\ nd_averages[{A, B}] = Round(AverageOf(B, A))

\* a pair of two cells was stored from both directions, one of the cells holds
\* two samples that lie at different distances from a sample of the other
C1_Witness ==
    /\ nd_pc = "done"
    /\ \E A, B \in DOMAIN nd_samples_in_hex :
        /\ A # B
        /\ {A, B} \in DOMAIN nd_written
        /\ Len(nd_written[{A, B}]) = 2
        /\ \E i, j \in 1..Len(nd_samples_in_hex[A]) :
            nd_dist_matrix[<<nd_samples_in_hex[A][i], nd_samples_in_hex[B][1]>>]
                # nd_dist_matrix[<<nd_samples_in_hex[A][j], nd_samples_in_hex[B][1]>>]

-----------------------------------------------------------------------------
(* Claims about the prediction of scale_distances *)

\* C12: a call of scale_distances fits at most once, and when a prediction is
\* handed in it fits nothing, looks every pair up in that prediction and returns
\* it; every decision of find_closest_population is the one the prediction of
\* its caller gives for the distance compared.
C12_PredictionReused ==
    /\ sc_fits <= 1
    /\ sc_exsiting_pred # NoPred =>
            /\ sc_fits = 0
            /\ sc_pc # "start" => sc_pred = sc_exsiting_pred
            /\ \A pair \in DOMAIN sc_output :
                sc_output[pair] = ScaledOf(pair, sc_time_bin[pair], sc_exsiting_pred)
    /\ \A iso \in DOMAIN fc_compared :
            LET pair == {iso, ClosestTo(iso)}
                links == {k \in DOMAIN fc_closest_populations : k[1] = iso}
            IN  IF RaisesOf(pair, fc_compared[iso], fc_pred)
                THEN /\ fc_pc = "raised"
                     /\ links = {}
                     /\ iso \notin Range(fc_new_isolated_hex)
                ELSE IF ScaledOf(pair, fc_compared[iso], fc_pred) < fc_threshold
                THEN links # {} /\ iso \notin Range(fc_new_isolated_hex)
                ELSE links = {} /\ iso \in Range(fc_new_isolated_hex)

\* a call with a prediction handed in returned a scaled value other than 0
C12_Witness ==
    /\ sc_pc = "done"
    /\ sc_exsiting_pred # NoPred
    /\ sc_pred = sc_exsiting_pred
    /\ \E pair \in DOMAIN sc_output : sc_output[pair] # 0

-----------------------------------------------------------------------------
(* Claims about the rounds of impute_missing_hexagons *)

\* the cells of the ring around n that hold a value in the map resolved
ResolvedNeighbors(resolved, n) == RingSet(n) \cap DOMAIN resolved

\* C13: a round gives a value only to cells that had at least 3 different
\* resolved cells in their ring when the round began, and the value is the mean
\* of the values of exactly those cells, rounded to two decimals; what the call
\* returns are such cells only, so a cell that never had 3 stays without value.
C13_ThreeResolvedNeighbors ==
    /\ [][\A n \in (DOMAIN im_imputed_hex') \ (DOMAIN im_imputed_hex) :
            LET R == ResolvedNeighbors(im_imputed_hex, n)
            IN  /\ Cardinality(R) >= 3
                /\ im_imputed_hex'[n] = RoundDiv(SumSet(im_imputed_hex, R), Cardinality(R))]_vars
    /\ [][\A n \in DOMAIN im_imputed_hex : im_imputed_hex'[n] = im_imputed_hex[n]]_imVars
    /\ [](im_pc = "done" =>
            /\ DOMAIN im_result = (DOMAIN im_imputed_hex) \ (DOMAIN im_barrier_hex)
            /\ \A n \in DOMAIN im_result : im_result[n] = im_imputed_hex[n])

\* the call returned a cell with a value while a cell with exactly 2 resolved
\* cells in its ring has none
C13_Witness ==
    /\ im_pc = "done"
    /\ DOMAIN im_result # {}
    /\ \E n \in GridDisk(Origin) \ DOMAIN im_imputed_hex :
        Cardinality(ResolvedNeighbors(im_imputed_hex, n)) = 2

-----------------------------------------------------------------------------
(* Claims about cells without samples *)

\* C14: the average distance of two cells of which one holds no sample is not
\* returned and not stored: the request ends with an error.
C14_EmptyCellRaises ==
    (/\ ad_pc # "call"
     /\ \/ GetSamples(ad_samples_in_hex, ad_hexagon) = <<>>
        \/ GetSamples(ad_samples_in_hex, ad_neighbor) = <<>>)
        => /\ ad_pc = "raised"
           /\ ad_averages = EmptyMap

\* C15: for a time bin with a single occupied cell the neighbors are built
\* without an error, the cell gets no neighbor, and the call runs to its end.
C15_SingleCellCompletes ==
    (Len(nd_hexagons) = 1 /\ nd_pc # "start") =>
        /\ nd_pc \in {"loop", "done"}
        /\ \A c \in DOMAIN nd_neighbors :
            \A i \in 1..Len(nd_neighbors[c]) : nd_neighbors[c][i] = c

-----------------------------------------------------------------------------
(* Claims about the flow of app.py *)

-----------------------------------------------------------------------------
(* Claims about the lines between cells that are not neighbors *)

\* the ways list(pair) can order the pairs of P: the first cell of each
Orientations(P) == {o \in [P -> UNION P] : \A q \in P : o[q] \in q}

RECURSIVE PaintedBy(_, _, _)
\* the lists of barrier_hex that the pairs of P alone leave, list(pair) being
\* ordered by o
PaintedBy(P, o, lists) ==
    IF P = {} THEN lists
    ELSE LET q == CHOOSE x \in P : TRUE
             line == FindH3Line(o[q], Other(q, o[q]), MaxIterations, iso_fail)
         IN  PaintedBy(P \ {q}, o,
                       IF /\ ~IsDirectNeighbor(o[q], Other(q, o[q]))
                          /\ line # NoLine
                          /\ Len(line) <= iso_allowed_distance
                       THEN AppendToAll(lists, line, iso_time_bin[q])
                       ELSE lists)

\* a pair of cells that are no grid neighbors and between which no line is
\* found, neither directly nor by bisection
NoPath(p) ==
    \A a \in p :
        /\ ~Adjacent(a, Other(p, a))
        /\ FindH3Line(a, Other(p, a), MaxIterations, iso_fail) = NoLine

\* C17: a pair of non-adjacent cells without a line does not end the call with
\* an error; once the call is over the pair is not in the filtered pair map and
\* barrier_hex is what the other pairs of the time bin alone paint.
C17_NoPathIsSkipped ==
    /\ iso_pc \in {"loop", "done"}
    /\ iso_pc = "done" =>
        \A p \in DOMAIN iso_time_bin :
            NoPath(p) =>
                /\ p \notin DOMAIN iso_new_time_bin
                /\ LET others == (DOMAIN iso_time_bin) \ {p}
                   IN  \E o \in Orientations(others) :
                        iso_barrier_hex = AverageLists(PaintedBy(others, o, EmptyMap))

\* the call is over for a time bin with a pair without a line and another pair
\* that painted cells
C17_Witness ==
    /\ iso_pc = "done"
    /\ \E p \in DOMAIN iso_time_bin : NoPath(p)
    /\ DOMAIN iso_barrier_hex # {}

-----------------------------------------------------------------------------
(* Claims about the lookup of the prediction *)

\* how far the support point of row i of the prediction is from km
Away(i, km) == Abs(sc_pred[i][1] - km)

\* C18: the scaled value stored for a pair is computed with the expected value
\* of the pair's own km distance when that is a support point of the
\* prediction, and otherwise with that of a nearest support point, of two
\* equally near ones always the one listed first.
C18_NearestSupportPoint ==
    \A pair \in DOMAIN sc_output :
        LET km == KmOfPair(pair)
        IN  \E i \in 1..Len(sc_pred) :
                /\ km \in PredKm(sc_pred) => sc_pred[i][1] = km
                /\ \A j \in 1..Len(sc_pred) : Away(i, km) <= Away(j, km)
                /\ \A j \in 1..(i - 1) : Away(j, km) > Away(i, km)
                /\ sc_output[pair] = ScaledValue(sc_time_bin[pair], sc_pred[i][2])

\* a value was stored for a pair whose km distance is no support point and lies
\* as near to one support point as to another with another expected value
C18_Witness ==
    \E pair \in DOMAIN sc_output :
        LET km == KmOfPair(pair)
        IN  /\ km \notin PredKm(sc_pred)
            /\ sc_output[pair] # 0
            /\ \E i, j \in 1..Len(sc_pred) :
                /\ i # j
                /\ Away(i, km) = Away(j, km)
                /\ sc_pred[i][2] # sc_pred[j][2]
                /\ \A k \in 1..Len(sc_pred) : Away(i, km) <= Away(k, km)

-----------------------------------------------------------------------------
(* Claims about create_age_groups *)

RECURSIVE Concat(_)
\* the lists of a list of lists, one after the other
Concat(lists) ==
    IF lists = <<>> THEN <<>> ELSE Head(lists) \o Concat(Tail(lists))

\* C19: create_age_groups(df, n) returns n groups; one after the other they are
\* the rows of df sorted by age, every row once; no group is larger than an
\* earlier one, two groups differ by at most one row, and the groups with one
\* row more are the first len(df) mod n.
C19_EvenConsecutiveGroups ==
    ag_pc = "done" =>
        LET groups == ag_age_groups
            rows == Concat(groups)
        IN  /\ Len(groups) = ag_number_of_bins
            /\ Len(rows) = Len(ag_ages)
            /\ \A r \in 1..Len(ag_ages) : \E i \in 1..Len(rows) : rows[i] = r
            /\ \A i, j \in 1..Len(rows) : i < j => ag_ages[rows[i]] <= ag_ages[rows[j]]
            /\ \A i, j \in 1..Len(groups) :
                i < j => /\ Len(groups[i]) >= Len(groups[j])
                         /\ Len(groups[i]) - Len(groups[j]) <= 1
            /\ Cardinality({i \in 1..Len(groups) : Len(groups[i]) > Len(groups[Len(groups)])})
                    = Len(ag_ages) % ag_number_of_bins

\* the call returned several groups of two sizes, with rows of different ages
C19_Witness ==
    /\ ag_pc = "done"
    /\ Len(ag_age_groups) >= 2
    /\ Len(ag_age_groups[1]) > Len(ag_age_groups[Len(ag_age_groups)])
    /\ Len(ag_age_groups[Len(ag_age_groups)]) >= 1
    /\ \E i, j \in 1..Len(ag_ages) : ag_ages[i] > ag_ages[j] /\ i < j

\* the cells of a line strictly between its two ends
Inside(line) == SubSeq(line, 2, Len(line) - 1)

RECURSIVE PaintedInside(_, _, _)
\* the lists of barrier_hex when every accepted line paints the cells between
\* its ends only, list(pair) being ordered by o
PaintedInside(P, o, lists) ==
    IF P = {} THEN lists
    ELSE LET q == CHOOSE x \in P : TRUE
             line == FindH3Line(o[q], Other(q, o[q]), MaxIterations, iso_fail)
         IN  PaintedInside(P \ {q}, o,
                           IF /\ ~IsDirectNeighbor(o[q], Other(q, o[q]))
                              /\ line # NoLine
                              /\ Len(line) <= iso_allowed_distance
                           THEN AppendToAll(lists, Inside(line), iso_time_bin[q])
                           ELSE lists)

\* C20: a pair with an accepted line adds its distance to the cells of the line
\* strictly between the two cells of the pair and to no other: once the call is
\* over for a time bin of pairs of non-adjacent cells, barrier_hex is the mean
\* of these contributions, the two ends of a line getting nothing from their
\* own pair.
C20_OnlyIntermediateCells ==
    (/\ iso_pc = "done"
     /\ \A p \in DOMAIN iso_time_bin : \A a \in p : ~Adjacent(a, Other(p, a))) =>
        \E o \in Orientations(DOMAIN iso_time_bin) :
            iso_barrier_hex = AverageLists(PaintedInside(DOMAIN iso_time_bin, o, EmptyMap))

-----------------------------------------------------------------------------
(* find_h3_line, call by call (func.py:222-247) *)

\* the most pairs h3.grid_path_cells raises for in one input
MaxFailing == 3

\* the cells the end points of the inputs are drawn from
FlCells == {<<0, 0>>, <<1, 0>>, <<2, 1>>, <<4, 0>>}

\* the pairs h3.grid_path_cells may raise for
FlFailCandidates ==
    {{<<0, 0>>, <<4, 0>>}, {<<0, 0>>, <<2, 0>>}, {<<2, 0>>, <<4, 0>>},
     {<<0, 0>>, <<1, 0>>}, {<<1, 0>>, <<2, 1>>}}

\* a call of find_h3_line: its arguments, its locals and where it stands
Frame(hex_start, hex_end, max_iterations) ==
    [hex_start |-> hex_start, hex_end |-> hex_end,
     max_iterations |-> max_iterations, midpoint_hex |-> NoHex,
     first_half |-> NoLine, at |-> "try"]

\* the innermost active call
Top == fl_stack[Len(fl_stack)]

\* the stack without its innermost call
Pop == SubSeq(fl_stack, 1, Len(fl_stack) - 1)

\* the stack with its innermost call replaced
Replace(frame) == [fl_stack EXCEPT ![Len(fl_stack)] = frame]

Combine_KeepDuplicate(first_half, second_half) ==
    IF first_half # NoLine /\ second_half # NoLine
    THEN first_half \o second_half
    ELSE NoLine

\* func.py:243-247: the two halves joined without the duplicate midpoint cell,
\* None when a half is None
Combine(first_half, second_half) ==
    IF first_half # NoLine /\ second_half # NoLine
    THEN SubSeq(first_half, 1, Len(first_half) - 1) \o second_half
    ELSE NoLine

\* func.py:224-226: h3.grid_path_cells succeeds and its line is returned
FlDirect ==
    /\ fl_pc = "run" /\ fl_stack # <<>> /\ ~fl_returning
    /\ Top.at = "try"
    /\ {Top.hex_start, Top.hex_end} \notin fl_fail
    /\ fl_ret' = GridPathCells(Top.hex_start, Top.hex_end)
    /\ fl_returning' = TRUE
    /\ fl_stack' = Pop
    /\ UNCHANGED <<fl_hex_start, fl_hex_end, fl_fail, fl_result, fl_pc>>
    /\ UNCHANGED notFlVars

\* func.py:227-229: h3.grid_path_cells raised and no iteration is left
FlExhausted ==
    /\ fl_pc = "run" /\ fl_stack # <<>> /\ ~fl_returning
    /\ Top.at = "try"
    /\ {Top.hex_start, Top.hex_end} \in fl_fail
    /\ Top.max_iterations <= 0
    /\ fl_ret' = NoLine
    /\ fl_returning' = TRUE
    /\ fl_stack' = Pop
    /\ UNCHANGED <<fl_hex_start, fl_hex_end, fl_fail, fl_result, fl_pc>>
    /\ UNCHANGED notFlVars

\* func.py:231-240: h3.grid_path_cells raised: the midpoint cell is computed
\* and the first half is asked for
FlFirstHalf ==
    /\ fl_pc = "run" /\ fl_stack # <<>> /\ ~fl_returning
    /\ Top.at = "try"
    /\ {Top.hex_start, Top.hex_end} \in fl_fail
    /\ Top.max_iterations > 0
    /\ LET midpoint_hex == MidpointHex(Top.hex_start, Top.hex_end)
       IN  fl_stack' =
                Append(Replace([Top EXCEPT !.midpoint_hex = midpoint_hex,
                                           !.at = "first"]),
                       Frame(Top.hex_start, midpoint_hex, Top.max_iterations - 1))
    /\ UNCHANGED <<fl_hex_start, fl_hex_end, fl_fail, fl_returning, fl_ret,
                   fl_result, fl_pc>>
    /\ UNCHANGED notFlVars

\* func.py:240-241: the first half has returned and the second half is asked for
FlSecondHalf ==
    /\ fl_pc = "run" /\ fl_stack # <<>> /\ fl_returning
    /\ Top.at = "first"
    /\ fl_stack' =
            Append(Replace([Top EXCEPT !.first_half = fl_ret, !.at = "second"]),
                   Frame(Top.midpoint_hex, Top.hex_end, Top.max_iterations - 1))
    /\ fl_returning' = FALSE
    /\ fl_ret' = NoLine
    /\ UNCHANGED <<fl_hex_start, fl_hex_end, fl_fail, fl_result, fl_pc>>
    /\ UNCHANGED notFlVars

\* func.py:243-247: the second half has returned and the call returns
FlCombine ==
    /\ fl_pc = "run" /\ fl_stack # <<>> /\ fl_returning
    /\ Top.at = "second"
    /\ fl_ret' = Combine(Top.first_half, fl_ret)
    /\ fl_stack' = Pop
    /\ UNCHANGED <<fl_hex_start, fl_hex_end, fl_fail, fl_returning, fl_result,
                   fl_pc>>
    /\ UNCHANGED notFlVars

\* func.py:271: the outermost call has returned to get_isolated_hex_and_barriers
FlReturn ==
    /\ fl_pc = "run" /\ fl_stack = <<>> /\ fl_returning
    /\ fl_result' = fl_ret
    /\ fl_pc' = "done"
    /\ UNCHANGED <<fl_hex_start, fl_hex_end, fl_fail, fl_stack, fl_returning,
                   fl_ret>>
    /\ UNCHANGED notFlVars

\* func.py:271: find_h3_line(pair[0], pair[1]) with the default max_iterations
FlInit ==
    /\ fl_hex_start \in FlCells
    /\ fl_hex_end \in FlCells \ {fl_hex_start}
    /\ fl_fail \in {F \in SUBSET FlFailCandidates : Cardinality(F) <= MaxFailing}
    /\ fl_stack = <<Frame(fl_hex_start, fl_hex_end, MaxIterations)>>
    /\ fl_returning = FALSE
    /\ fl_ret = NoLine
    /\ fl_result = NoLine
    /\ fl_pc = "run"

FlNext ==
    FlDirect \/ FlExhausted \/ FlFirstHalf \/ FlSecondHalf \/ FlCombine \/ FlReturn

InitLine == FlInit /\ ImIdle /\ IsoIdle /\ ScIdle /\ FcIdle /\ NdIdle /\ AdIdle /\ AppIdle /\ AgIdle /\ EgIdle

\* a call that can take a step takes it: the interpreter does not stop
SpecLine == InitLine /\ [][FlNext]_vars /\ WF_vars(FlNext)

-----------------------------------------------------------------------------
(* Claims about the recursion of find_h3_line *)

\* how often cell c occurs in line
Occurrences(line, c) == Cardinality({i \in 1..Len(line) : line[i] = c})

\* every active call has one iteration less than its caller, and no more than
\* MaxIterations calls are nested in the outermost one
BoundedDepth ==
    /\ Len(fl_stack) <= MaxIterations + 1
    /\ \A i \in 1..Len(fl_stack) :
            fl_stack[i].max_iterations = MaxIterations - (i - 1)

\* a returned line runs from the start cell of its call to the end cell
FromStartToEnd ==
    /\ (fl_pc = "done" /\ fl_result # NoLine) =>
            /\ Head(fl_result) = fl_hex_start
            /\ fl_result[Len(fl_result)] = fl_hex_end
    /\ (fl_pc = "done" /\ fl_result = NoLine) =>
            {fl_hex_start, fl_hex_end} \in fl_fail

\* a line joined from two halves holds the midpoint cell once and runs from
\* the start cell of the call to its end cell
JoinedOnce ==
    (fl_pc = "run" /\ fl_stack # <<>> /\ fl_returning /\ Top.at = "second"
        /\ fl_ret' # NoLine) =>
            /\ Occurrences(fl_ret', Top.midpoint_hex) = 1
            /\ Head(fl_ret') = Top.hex_start
            /\ fl_ret'[Len(fl_ret')] = Top.hex_end

\* C21: find_h3_line always terminates: every recursive call has one
\* iteration less than its caller, the depth of the recursion never exceeds
\* the cap of 10 (also when the midpoint cell is one of the end cells), the
\* result is None when the cap is used up or a half fails, and a result that
\* is not None starts at hex_start, ends at hex_end and holds the midpoint
\* cell once
C21_BisectionTerminates ==
    /\ [](BoundedDepth /\ FromStartToEnd)
    /\ [][JoinedOnce]_vars
    /\ <>(fl_pc = "done")
    /\ [](fl_pc = "done" =>
            fl_result = FindH3Line(fl_hex_start, fl_hex_end, MaxIterations, fl_fail))

\* the cap is used up by a pair whose midpoint cell is one of its end cells
C21_Witness ==
    /\ fl_pc = "done"
    /\ fl_result = NoLine
    /\ MidpointHex(fl_hex_start, fl_hex_end) \in {fl_hex_start, fl_hex_end}

-----------------------------------------------------------------------------
(* calc_neighbor_dist for a bin of four cells (func.py:48-129) *)

\* the cells of the inputs with four occupied cells, in the order of the
\* table, and the matrix entries of these inputs
NdWideCells == <<<<0, 0>>, <<1, 0>>, <<0, 1>>, <<1, 1>>>>
NdWideMatVals == {1, 2}

\* func.py:62-71: a call for the table that puts sample i into the i-th of
\* four cells, and a matrix with the same entry for every two samples
NdWideInit ==
    /\ nd_samples_in_hex = SamplesInHex([x \in NdSamples |-> NdWideCells[x]])
    /\ nd_hexagons = Unique(nd_samples_in_hex)
    /\ \E v \in NdWideMatVals : nd_dist_matrix \in DistMatrices(NdSamples, {v})
    /\ nd_keys = <<>>
    /\ nd_neighbors = EmptyMap
    /\ nd_k = 0
    /\ nd_n = 0
    /\ nd_averages = EmptyMap
    /\ nd_written = EmptyMap
    /\ nd_simplices = {}
    /\ nd_pc = "start"

InitFourCells == NdWideInit /\ ImIdle /\ IsoIdle /\ ScIdle /\ FcIdle /\ AdIdle /\ AppIdle /\ AgIdle /\ FlIdle /\ EgIdle

InitNeighborDistWide == InitNeighborDist \/ InitFourCells

SpecNeighborDistWide == InitNeighborDistWide /\ [][NdNext]_vars

-----------------------------------------------------------------------------
(* Claims about the keys of calc_neighbor_dist *)

\* the mean of the whole block of the matrix between the samples of cell c and
\* themselves, the diagonal included, rounded as line 127 rounds
InternalMean(c) ==
    LET ids == Range(nd_samples_in_hex[c])
    IN  RoundDiv(SumSet(nd_dist_matrix, ids \X ids),
                 Cardinality(ids) * Cardinality(ids))

\* C22: the map calc_neighbor_dist returns holds, for every occupied cell of
\* the bin (also one on no triangle), a self pair whose value is the mean over
\* the whole internal block of the cell, the diagonal included, and every
\* other key is a pair of two different cells that an edge of a triangle joins
C22_SelfPairsAndEdges ==
    nd_pc = "done" =>
        /\ \A c \in DOMAIN nd_samples_in_hex :
                /\ {c} \in DOMAIN nd_averages
                /\ nd_averages[{c}] = InternalMean(c)
        /\ \A pair \in DOMAIN nd_averages :
                \/ Cardinality(pair) = 1
                \/ /\ Cardinality(pair) = 2
                   /\ \E t \in nd_simplices : pair \subseteq t

\* a call has returned for a bin with a cell that is on no triangle
C22_Witness ==
    /\ nd_pc = "done"
    /\ \E c \in DOMAIN nd_samples_in_hex : c \notin UNION nd_simplices

-----------------------------------------------------------------------------
(* Claims about the cumulative rounds of impute_missing_hexagons *)

\* the cells next to a cell that holds a value in the map resolved
Frontier(resolved) ==
    (UNION {RingSet(h) : h \in DOMAIN resolved}) \ DOMAIN resolved

\* C23: every round works on the cumulative map: a cell without value that
\* has at least 3 cells with a value in its ring when a round begins, observed
\* or imputed by an earlier round, gets its value in that round, the mean of
\* the values of all of them, the imputed ones included.
C23_CumulativeRounds ==
    [][im_run' = im_run + 1 =>
        \A n \in Frontier(im_imputed_hex) :
            LET R == ResolvedNeighbors(im_imputed_hex, n)
            IN  Cardinality(R) >= 3 =>
                    /\ n \in DOMAIN im_imputed_hex'
                    /\ im_imputed_hex'[n] =
                            RoundDiv(SumSet(im_imputed_hex, R), Cardinality(R))]_vars

\* the second round has given a value to a cell that has fewer than 3 observed
\* cells in its ring
C23_Witness ==
    /\ im_run = 2
    /\ \E n \in (DOMAIN im_imputed_hex) \ (DOMAIN im_barrier_hex) :
        /\ Cardinality(ResolvedNeighbors(im_barrier_hex, n)) < 3
        /\ Cardinality(ResolvedNeighbors(im_imputed_hex, n)) >= 3

-----------------------------------------------------------------------------
(* Claims about the resolution of scale_distances *)

\* C24: for a self pair (a cell paired with itself) the geographic distance
\* scale_distances uses is 1281 / 2.65^resolution for the resolution the call
\* was given: a fit of the call holds a row at that distance.
C24_SelfKmOfResolution ==
    (sc_pc \in {"loop", "done"} /\ sc_exsiting_pred = NoPred) =>
        \A pair \in DOMAIN sc_time_bin :
            Cardinality(pair) = 1 => SelfKm(sc_resolution) \in PredKm(sc_pred)

-----------------------------------------------------------------------------
(* Claims about the cells without a pair *)

\* C25: a cell that is in no pair of the time bin is never reported as
\* isolated, whatever the threshold, also when the argument hexagons lists it.
C25_UnpairedNeverIsolated ==
    iso_pc = "done" =>
        \A c \in IsoCells \cup iso_hexagons :
            c \notin UNION (DOMAIN iso_time_bin) => c \notin iso_isolated_hex

\* a call has returned for a list of hexagons with a cell that is in no pair
C25_Witness ==
    /\ iso_pc = "done"
    /\ iso_hexagons \ UNION (DOMAIN iso_time_bin) # {}
    /\ iso_isolated_hex # {}

-----------------------------------------------------------------------------
(* create_equal_age_groups (func.py:553-587, label_samples_time_hexa.py:10-44) *)

\* the most bins an input asks for, and the greatest age of the inputs: an
\* upper bound above it selects every sample at or above the lower bound
MaxEgBins == 4
MaxAge == 2000

\* the ages of the samples of the inputs and how many samples share an age
EgAges == {0, 1000, MaxAge}
EgCounts == {0, 2, 5, 144}

\* the fewest samples of a bin (func.py:577, label_samples_time_hexa.py:34)
MinBinSamples == 5

\* the samples left out for the bin size (func.py:567: 144,
\* label_samples_time_hexa.py:24: 100)
LeftOut(file) == IF file = "func" THEN 144 ELSE 100

\* the years added to up_b by a pass of the while loop (func.py:578: 500,
\* label_samples_time_hexa.py:35: 50)
WidenStep(file) == IF file = "func" THEN 500 ELSE 50

\* the ages that have samples in the table df
AgesOf(df) == {a \in DOMAIN df : df[a] > 0}

\* df.shape[0]: the number of samples of the table
Rows(df) == SumSet(df, DOMAIN df)

RECURSIVE DropOldest(_, _)
\* df.sort_values('Age').iloc[:-k]: the table without its k oldest samples,
\* empty when it has no more than k
DropOldest(df, k) ==
    IF k = 0 \/ AgesOf(df) = {} THEN df
    ELSE LET oldest == CHOOSE a \in AgesOf(df) : \A b \in AgesOf(df) : b <= a
             taken == IF df[oldest] < k THEN df[oldest] ELSE k
         IN  DropOldest([df EXCEPT ![oldest] = @ - taken], k - taken)

\* temp_df['Age'].min() and temp_df['Age'].max()
MinOf(df) == CHOOSE a \in AgesOf(df) : \A b \in AgesOf(df) : a <= b
MaxOf(df) == CHOOSE a \in AgesOf(df) : \A b \in AgesOf(df) : b <= a

\* df[(df['Age'] >= low_b) & (df['Age'] < up_b)]
Between(df, low_b, up_b) ==
    [a \in DOMAIN df |-> IF a >= low_b /\ a < up_b THEN df[a] ELSE 0]

\* df[(df['Age'] >= low_b)]
AtLeast(df, low_b) == [a \in DOMAIN df |-> IF a >= low_b THEN df[a] ELSE 0]

\* the lower bound of the next bin (func.py:581: low_b = up_b,
\* label_samples_time_hexa.py:38: low_b += bin_size)
NextLow(file, low_b, up_b, bin_size) ==
    IF file = "func" THEN up_b ELSE low_b + bin_size

\* lines 565-574: the table without its oldest samples gives the bin size;
\* min() and max() of an empty table are nan and int(nan) raises, a division
\* by zero gives inf or nan and int() of it raises
EgStart ==
    /\ eg_pc = "start"
    /\ LET temp_df == DropOldest(eg_df, LeftOut(eg_file))
       IN  IF AgesOf(temp_df) = {} \/ eg_number_of_bins = 0
           THEN /\ eg_pc' = "raised"
                /\ UNCHANGED <<eg_bin_size, eg_low_b, eg_up_b>>
           ELSE LET min_age == MinOf(temp_df)
                    age_range == MaxOf(temp_df) - min_age
                    bin_size == age_range \div eg_number_of_bins
                IN  /\ eg_bin_size' = bin_size
                    /\ eg_low_b' = min_age
                    /\ eg_up_b' = min_age + bin_size
                    /\ eg_pc' = "loop"
    /\ UNCHANGED <<eg_file, eg_df, eg_number_of_bins, eg_pass, eg_age_groups>>
    /\ UNCHANGED notEgVars

\* lines 577-579: a pass of the while loop: the bin holds fewer than 5 samples
\* and its upper bound is raised. Above MaxAge a higher bound selects the
\* same samples, so the model stops raising it there.
EgWiden ==
    /\ eg_pc = "loop"
    /\ eg_pass < eg_number_of_bins - 1
    /\ Rows(Between(eg_df, eg_low_b, eg_up_b)) < MinBinSamples
    /\ eg_up_b <= MaxAge
    /\ eg_up_b' = eg_up_b + WidenStep(eg_file)
    /\ UNCHANGED <<eg_file, eg_df, eg_number_of_bins, eg_bin_size, eg_low_b,
                   eg_pass, eg_age_groups, eg_pc>>
    /\ UNCHANGED notEgVars

\* lines 576-582: the while loop is over: the bin is appended and the bounds
\* move on
EgAppend ==
    /\ eg_pc = "loop"
    /\ eg_pass < eg_number_of_bins - 1
    /\ Rows(Between(eg_df, eg_low_b, eg_up_b)) >= MinBinSamples
    /\ eg_age_groups' = Append(eg_age_groups, Between(eg_df, eg_low_b, eg_up_b))
    /\ eg_low_b' = NextLow(eg_file, eg_low_b, eg_up_b, eg_bin_size)
    /\ eg_up_b' = eg_up_b + eg_bin_size
    /\ eg_pass' = eg_pass + 1
    /\ UNCHANGED <<eg_file, eg_df, eg_number_of_bins, eg_bin_size, eg_pc>>
    /\ UNCHANGED notEgVars

\* lines 584-587: the last bin takes every sample from low_b on
EgLast ==
    /\ eg_pc = "loop"
    /\ eg_pass >= eg_number_of_bins - 1
    /\ eg_age_groups' = Append(eg_age_groups, AtLeast(eg_df, eg_low_b))
    /\ eg_pc' = "done"
    /\ UNCHANGED <<eg_file, eg_df, eg_number_of_bins, eg_bin_size, eg_low_b,
                   eg_up_b, eg_pass>>
    /\ UNCHANGED notEgVars

\* a call of one of the two copies with its arguments
EgInit ==
    /\ eg_file \in {"func", "label"}
    /\ eg_df \in [EgAges -> EgCounts]
    /\ eg_number_of_bins \in 0..MaxEgBins
    /\ eg_bin_size = 0
    /\ eg_low_b = 0
    /\ eg_up_b = 0
    /\ eg_pass = 0
    /\ eg_age_groups = <<>>
    /\ eg_pc = "start"

EgNext == EgStart \/ EgWiden \/ EgAppend \/ EgLast

InitEqualAgeGroups == EgInit /\ ImIdle /\ IsoIdle /\ ScIdle /\ FcIdle /\ NdIdle /\ AdIdle /\ AppIdle /\ AgIdle /\ FlIdle

\* a call that can take a step takes it: the interpreter does not stop
SpecEqualAgeGroups == InitEqualAgeGroups /\ [][EgNext]_vars /\ WF_vars(EgNext)

-----------------------------------------------------------------------------
(* Claims about the bins of create_equal_age_groups *)

\* C26: create_equal_age_groups terminates for every table and every number
\* of bins: the loop that raises the upper bound of a bin until the bin holds
\* at least 5 samples always ends, also when fewer than 5 samples have an age
\* at or above the lower bound of the bin. The loop is never at a place where
\* it cannot end: the bin short of 5 samples with every sample of the table
\* already below its upper bound, so that no pass of the loop adds one.
C26_WideningEnds ==
    ~ /\ eg_pc = "loop"
      /\ eg_pass < eg_number_of_bins - 1
      /\ Rows(Between(eg_df, eg_low_b, eg_up_b)) < MinBinSamples
      /\ \A a \in AgesOf(eg_df) : a < eg_up_b

-----------------------------------------------------------------------------
(* Claims about a bin with a single occupied cell *)

\* C29: when the bin holds no occupied cell but the isolated cell itself,
\* find_closest_population returns without raising, records no link for the
\* cell and keeps it in the list of the cells that are still isolated.
C29_LoneCellStaysIsolated ==
    (fc_pc # "idle" /\ Cardinality(DOMAIN fc_samples_in_hex) = 1) =>
        /\ fc_pc # "raised"
        /\ fc_pc = "done" =>
                /\ fc_closest_populations = EmptyMap
                /\ fc_new_isolated_hex = fc_isolated_hex

-----------------------------------------------------------------------------
(* Claims about the pairs scale_distances returns *)

\* C30: scale_distances is total: for every time bin and every prediction it
\* returns a scaled value for every pair of the time bin, also for a pair with
\* an observed distance other than zero whose expected distance is zero or
\* negative.
C30_ScaleIsTotal ==
    /\ sc_pc # "raised"
    /\ sc_pc = "done" => DOMAIN sc_output = DOMAIN sc_time_bin

-----------------------------------------------------------------------------
(* Claims about the values impute_missing_hexagons has given *)

\* whether every key of map f is a key of map g with the same value
SubMap(f, g) ==
    /\ DOMAIN f \subseteq DOMAIN g
    /\ \A k \in DOMAIN f : g[k] = f[k]

\* what the call would return after one more round
OneRoundMore ==
    RemoveOriginal(Update(im_imputed_hex, Impute(im_imputed_hex)), im_barrier_hex)

\* C28: a round never changes a value an earlier round has given and the
\* barrier map handed in is not modified; so what the call returns for n
\* rounds is part of what it returns for n + 1 rounds, keys and values, and
\* for 0 rounds it returns an empty map.
C28_ImputedValuesStay ==
    /\ [][/\ \A n \in DOMAIN im_imputed_hex :
                /\ n \in DOMAIN im_imputed_hex'
                /\ im_imputed_hex'[n] = im_imputed_hex[n]
          /\ im_barrier_hex' = im_barrier_hex]_imVars
    /\ [](im_pc = "done" =>
            /\ SubMap(im_result, OneRoundMore)
            /\ SubMap(im_barrier_hex, im_imputed_hex)
            /\ im_num_runs = 0 => im_result = EmptyMap)

\* a call of one round has returned imputed cells and a second round would
\* have added another
C28_Witness ==
    /\ im_pc = "done"
    /\ im_num_runs = 1
    /\ DOMAIN im_result # {}
    /\ DOMAIN OneRoundMore # DOMAIN im_result

=============================================================================
